---------------------------- MODULE Spec2Model ----------------------------
(***************************************************************************)
(* State-machine model of the credential and session lifecycle engine of   *)
(* uac-backend: the token service (internal/service/token.go), the OAuth   *)
(* protocol handler (internal/handler/oauth.go), the account handler's     *)
(* refresh endpoint and the CAS ticket engine                              *)
(* (internal/service/session.go).                                          *)
(*                                                                         *)
(* Every request is served by a goroutine, a member of Workers.  A call    *)
(* that touches shared state more than once is split at each shared        *)
(* access, so that the concurrent specifications interleave calls exactly  *)
(* where the Go scheduler can; the sequential specifications admit a new   *)
(* call only when no other call is in flight.                              *)
(***************************************************************************)
EXTENDS Integers, Sequences, FiniteSets, TLC

\* ------------------------------------------------------------------ bounds
NumWorkers == 2      \* goroutines serving requests at the same time
MaxTime    == 2      \* the clock runs 0..MaxTime
MaxTokens  == 1      \* tokens minted through the token service's interface
MaxCodes   == 2      \* authorization codes generated in one behaviour
MaxRevoked == 1      \* distinct strings in the revocation set
MaxTGTs    == 1      \* ticket-granting tickets created in one behaviour
MaxSTs     == 2      \* service tickets minted in one behaviour
MaxRotations == 2    \* refresh exchanges answered with a new pair
MaxAuthorized == 1   \* codes handed out by the authorization endpoint
MaxRoles   == 2      \* roles assigned to one user
MaxRoleRows == 2     \* rows the roles table ever holds
MaxFailedWrites == 1 \* store writes that fail, per service ticket
MaxSessions == 3     \* sessions stored in one behaviour

\* --------------------------------------------- configuration (clock ticks)
AccessExpiry  == 1   \* tokenService.accessExpiry
RefreshExpiry == 2   \* tokenService.refreshExpiry
CodeExpiry    == 1   \* tokenService.codeExpiry
TGTExpiry     == 1   \* SessionServiceConfig.TGTExpiry
STExpiry      == 1   \* SessionServiceConfig.STExpiry
SessionExpiry == 1   \* SessionServiceConfig.SessionExpiry
IndexGrace    == 1   \* Create: the index outlives SessionExpiry by time.Hour
LockDuration  == 1   \* User.IncrementFailedLogin: 15 * time.Minute
MaxFailedAttempts == 5  \* User.IncrementFailedLogin: FailedLoginCount >= 5

Workers == 1..NumWorkers

Issuer      == "uac"          \* tokenService.issuer
OtherIssuer == "other"        \* any issuer string that is not the service's
Users       == {"u1"}
NoUser      == ""
NoUserID    == "<unset>"      \* c.Get("user_id") finds nothing set

\* ------------------------------------------------------------ error values
Nil                 == "nil"
ErrInvalidToken     == "ErrInvalidToken"
ErrTokenExpired     == "ErrTokenExpired"
ErrInvalidSignature == "ErrInvalidSignature"
ErrInvalidIssuer    == "ErrInvalidIssuer"
ErrCodeExpired      == "ErrCodeExpired"
ErrCodeUsed         == "ErrCodeUsed"
ErrTGTNotFound      == "ErrTGTNotFound"
ErrTGTExpired       == "ErrTGTExpired"
ErrSTNotFound       == "ErrSTNotFound"
ErrSTExpired        == "ErrSTExpired"
ErrSTUsed           == "ErrSTUsed"
ErrServiceMismatch  == "service mismatch"   \* errors.New, not a named value

\* ------------------------------------------------------------------- state
VARIABLES
  now,            \* time.Now(), in ticks
  codes,          \* tokenService.codes: the set of keys of the map
  codeObjs,       \* the *AuthorizationCode each key points to (the heap)
  revokedTokens,  \* tokenService.revokedTokens: token string -> time
  issued,         \* token strings the service has signed and handed out
  pc,             \* per goroutine: where its call stands
  loc,            \* per goroutine: the call's arguments and locals
  ret,            \* what the call that returned last returned
  redeemed,       \* history: successful redemptions per authorization code
  tgts,           \* the shared store's keys "tgt:<id>": id -> [data, exp]
  sts,            \* the shared store's keys "st:<ticket>": ticket -> [data, exp]
  tgtSeq,         \* how many TGT ids uuid.New has produced
  stMinted,       \* history: every service ticket CreateST has returned
  validated,      \* history: successful validations per service ticket
  rotations,      \* history: <<presented, returned>> of every refresh exchange
  sequential,     \* TRUE: a call starts only when no other is in flight
  roleTable,      \* the rows of the roles table: id -> role
  userTable,      \* the rows of the users table: username -> user
  wrongStreak,    \* history: wrong-password logins in a row, per username
  sessions,       \* the shared store's keys "session:<id>": id -> [data, exp]
  userSessions,   \* the keys "user_sessions:<user>": user -> [data, exp]
  created         \* history: every session Create has stored, by id

tokenVars == <<codes, codeObjs, revokedTokens, issued, redeemed>>
casVars   == <<tgts, sts, tgtSeq, stMinted, validated>>
storeVars == <<roleTable, userTable, wrongStreak>>
sessVars  == <<sessions, userSessions, created>>

vars == <<now, tokenVars, casVars, rotations, pc, loc, ret, sequential, storeVars, sessVars>>

\* ------------------------------------------------------------ token strings
\* A compact JWT is the triple header.claims.signature; the model keeps the
\* header's alg, the claims the service reads and whether the signature
\* verifies under the service's public key.  wellformed = FALSE is a string
\* that is not a compact JWT at all.
NoClaims == [Type |-> "", UserID |-> NoUser, ClientID |-> "", Scopes |-> {},
             Issuer |-> "", ExpiresAt |-> 0, ID |-> 0]

Signed(claims) ==
  [wellformed |-> TRUE, alg |-> "RS256", sig |-> "valid", claims |-> claims]

Garbage ==
  [wellformed |-> FALSE, alg |-> "", sig |-> "invalid", claims |-> NoClaims]

\* token[:len(token)-5] + "xxxxx": the signature no longer verifies
TamperSignature(t) == [t EXCEPT !.sig = "invalid"]
\* the header re-written to a non-RSA algorithm
TamperAlg(t) == [t EXCEPT !.alg = "HS256", !.sig = "invalid"]
\* the same key signing for another issuer
ForeignIssuer(t) == [t EXCEPT !.claims.Issuer = OtherIssuer]

\* Every string a caller can present, given what has been issued.
Presentable ==
  issued \cup {TamperSignature(t) : t \in issued}
         \cup {TamperAlg(t) : t \in issued}
         \cup {ForeignIssuer(t) : t \in issued}
         \cup {Garbage}

\* ----------------------------------------------------- jwt.ParseWithClaims
\* golang-jwt v5: split and decode, ask the key function for the key, verify
\* the signature, then validate the registered claims (exp).
JwtErrMalformed        == "jwt.ErrTokenMalformed"
JwtErrUnverifiable     == "jwt.ErrTokenUnverifiable"
JwtErrSignatureInvalid == "jwt.ErrTokenSignatureInvalid"
JwtErrTokenExpired     == "jwt.ErrTokenExpired"

\* the key function ValidateToken passes: only RSA methods get the key
KeyFunc(t) == IF t.alg = "RS256" THEN Nil ELSE ErrInvalidSignature

ParseWithClaims(t, clock) ==
  IF ~t.wellformed THEN JwtErrMalformed
  ELSE IF KeyFunc(t) # Nil THEN JwtErrUnverifiable
  ELSE IF t.sig # "valid" THEN JwtErrSignatureInvalid
  ELSE IF clock > t.claims.ExpiresAt THEN JwtErrTokenExpired
  ELSE Nil

\* ----------------------------------------------- tokenService.ValidateToken
\* ValidateToken without its look into the revocation set
ValidateTokenIn_NoRevocationCheck(revoked, t, clock) ==
  LET perr == ParseWithClaims(t, clock) IN
    IF perr # Nil THEN
      IF perr = JwtErrTokenExpired
        THEN [err |-> ErrTokenExpired, claims |-> NoClaims]
        ELSE [err |-> ErrInvalidToken, claims |-> NoClaims]
    ELSE IF t.claims.Issuer # Issuer
      THEN [err |-> ErrInvalidIssuer, claims |-> NoClaims]
      ELSE [err |-> Nil, claims |-> t.claims]

ValidateTokenIn(revoked, t, clock) ==
  IF t \in DOMAIN revoked THEN [err |-> ErrInvalidToken, claims |-> NoClaims]
  ELSE LET perr == ParseWithClaims(t, clock) IN
    IF perr # Nil THEN
      IF perr = JwtErrTokenExpired
        THEN [err |-> ErrTokenExpired, claims |-> NoClaims]
        ELSE [err |-> ErrInvalidToken, claims |-> NoClaims]
    ELSE IF t.claims.Issuer # Issuer
      THEN [err |-> ErrInvalidIssuer, claims |-> NoClaims]
      ELSE [err |-> Nil, claims |-> t.claims]

ValidateToken(t) == ValidateTokenIn(revokedTokens, t, now)

\* ------------------------------------------------------- goroutine plumbing
NoST == [Ticket |-> 0, TGTID |-> 0, UserID |-> NoUser, Service |-> "",
         Used |-> FALSE, ExpiresAt |-> 0]

\* the string a request leaves out
NoTokenString ==
  [wellformed |-> FALSE, alg |-> "", sig |-> "", claims |-> NoClaims]

\* handler.TokenRequest; Code 0 is the code a request leaves out
NoTokenRequest ==
  [GrantType |-> "", Code |-> 0, RedirectURI |-> "", ClientID |-> "",
   ClientSecret |-> "", CodeVerifier |-> "", RefreshToken |-> NoTokenString,
   Scope |-> {""}]

NoLoc == [op |-> "", code |-> 0, err |-> Nil, ticket |-> 0, tgt |-> 0,
          service |-> "", st |-> NoST, claims |-> NoClaims,
          req |-> NoTokenRequest]
NoRet == [op |-> "", err |-> Nil, code |-> 0, token |-> Garbage,
          claims |-> NoClaims, ticket |-> 0, tgt |-> 0, service |-> "",
          st |-> NoST, n |-> 0, refresh |-> NoTokenString,
          idToken |-> NoTokenString, req |-> NoTokenRequest,
          args |-> <<>>, ok |-> FALSE, status |-> 0, list |-> {}]

\* Goroutine w may take the next request.  Idle goroutines are
\* interchangeable, so the one with the least index takes it.
MayBegin(w) ==
  /\ pc[w] = "idle"
  /\ \A v \in Workers : v < w => pc[v] # "idle"
  /\ sequential => \A v \in Workers : pc[v] = "idle"

\* the call of goroutine w returns r to its caller; ret.n flips at every
\* return, which tells a return apart from the one before it
Return(w, r) ==
  /\ pc'  = [pc EXCEPT ![w] = "idle"]
  /\ loc' = [loc EXCEPT ![w] = NoLoc]
  /\ ret' = [r EXCEPT !.n = 1 - ret.n]

\* the response of a token endpoint: an error code, or the pair, with the
\* HTTP status of tokenError (and of response.Error, for the account handler)
Respond(w, op, req, err, access, refresh) ==
  Return(w, [NoRet EXCEPT !.op = op, !.req = req, !.err = err,
                          !.token = access, !.refresh = refresh,
                          !.status = IF err = Nil THEN 200
                                     ELSE IF err = "invalid_client" THEN 401
                                     ELSE 400])

Tick ==
  /\ now < MaxTime
  /\ now' = now + 1
  /\ UNCHANGED <<tokenVars, casVars, rotations, pc, loc, ret, sequential,
                 storeVars, sessVars>>

\* ------------------------------------------------ tokenService.Generate*Token
\* generateTokenID(): 16 random bytes, modelled as a value never used before
FreshID(n) == Cardinality(issued) + n

AccessToken(claims, id) ==
  Signed([claims EXCEPT !.Type = "access", !.Issuer = Issuer,
                        !.ExpiresAt = now + AccessExpiry, !.ID = id])

RefreshTokenOf(claims, id) ==
  Signed([claims EXCEPT !.Type = "refresh", !.Issuer = Issuer,
                        !.ExpiresAt = now + RefreshExpiry, !.ID = id])

IDToken(claims, id) ==
  Signed([claims EXCEPT !.Type = "id", !.Issuer = Issuer,
                        !.ExpiresAt = now + AccessExpiry, !.ID = id])

GenerateToken(w, op, t) ==
  /\ MayBegin(w)
  /\ Cardinality(issued) < MaxTokens
  /\ issued' = issued \cup {t}
  /\ Return(w, [NoRet EXCEPT !.op = op, !.token = t])
  /\ UNCHANGED <<now, codes, codeObjs, revokedTokens, redeemed, casVars,
                 rotations, sequential, storeVars, sessVars>>

GenerateAccessToken(w, claims) ==
  GenerateToken(w, "GenerateAccessToken", AccessToken(claims, FreshID(1)))

GenerateRefreshToken(w, claims) ==
  GenerateToken(w, "GenerateRefreshToken", RefreshTokenOf(claims, FreshID(1)))

GenerateIDToken(w, claims) ==
  GenerateToken(w, "GenerateIDToken", IDToken(claims, FreshID(1)))

\* the service's ValidateToken, called by goroutine w on the string t
ValidateTokenCall(w, t) ==
  /\ MayBegin(w)
  /\ LET r == ValidateToken(t) IN
       Return(w, [NoRet EXCEPT !.op = "ValidateToken", !.token = t,
                               !.err = r.err, !.claims = r.claims])
  /\ UNCHANGED <<now, codes, codeObjs, revokedTokens, issued, redeemed,
                 casVars, rotations, sequential, storeVars, sessVars>>

\* ------------------------------------------------- tokenService.RevokeToken
\* the map is left as it was
Revoke_Forgotten(revoked, t, clock) == revoked

Revoke(revoked, t, clock) ==
  [s \in DOMAIN revoked \cup {t} |-> IF s = t THEN clock ELSE revoked[s]]

RevokeToken(w, t) ==
  /\ MayBegin(w)
  /\ t \in DOMAIN revokedTokens \/ Cardinality(DOMAIN revokedTokens) < MaxRevoked
  /\ revokedTokens' = Revoke(revokedTokens, t, now)
  /\ Return(w, [NoRet EXCEPT !.op = "RevokeToken", !.token = t])
  /\ UNCHANGED <<now, codes, codeObjs, issued, redeemed, casVars, rotations,
                 sequential, storeVars, sessVars>>

\* ------------------------------- tokenService.GenerateAuthorizationCode
NoCode == [Code |-> 0, ClientID |-> "", UserID |-> NoUser, RedirectURI |-> "",
           Scopes |-> {}, CodeChallenge |-> "", CodeChallengeMethod |-> "",
           ExpiresAt |-> 0, Used |-> FALSE]

\* generateSecureCode(32): a code string never used before
FreshCode == Cardinality(DOMAIN codeObjs) + 1

StoreCode(code) ==
  /\ Cardinality(DOMAIN codeObjs) < MaxCodes
  /\ codeObjs' = [c \in DOMAIN codeObjs \cup {FreshCode} |->
                    IF c = FreshCode
                      THEN [code EXCEPT !.Code = FreshCode,
                                        !.ExpiresAt = now + CodeExpiry,
                                        !.Used = FALSE]
                      ELSE codeObjs[c]]
  /\ codes' = codes \cup {FreshCode}

GenerateAuthorizationCode(w, code) ==
  /\ MayBegin(w)
  /\ StoreCode(code)
  /\ Return(w, [NoRet EXCEPT !.op = "GenerateAuthorizationCode",
                             !.code = FreshCode])
  /\ UNCHANGED <<now, revokedTokens, issued, redeemed, casVars, rotations,
                 sequential, storeVars, sessVars>>

\* ------------------------------- tokenService.ValidateAuthorizationCode
\* The call reads the map, reads code.Used, reads the clock (and may delete
\* the key), and writes code.Used: four accesses to state shared between
\* goroutines, with no lock around them.
VACName == "ValidateAuthorizationCode"

\* ---------------------------------------------- the registered applications
\* bcrypt.GenerateFromPassword, as far as CompareHashAndPassword can tell
Bcrypt(secret) == <<"bcrypt", secret>>

\* the rows of the applications table: a 2.1 client, a legacy client, and
\* a legacy client that an administrator has disabled
Applications ==
  [c \in {"c1", "c2", "c3"} |->
     IF c = "c1"
       THEN [ClientID |-> "c1", ClientSecretHash |-> Bcrypt("s1"),
             OAuthVersion |-> "2.1", RedirectURIs |-> {"r1"},
             AllowedScopes |-> {"openid", "profile"}, Status |-> "active"]
     ELSE IF c = "c2"
       THEN [ClientID |-> "c2", ClientSecretHash |-> Bcrypt("s2"),
             OAuthVersion |-> "2.0", RedirectURIs |-> {"r1", "r2"},
             AllowedScopes |-> {"profile"}, Status |-> "active"]
       ELSE [ClientID |-> "c3", ClientSecretHash |-> Bcrypt("s3"),
             OAuthVersion |-> "2.0", RedirectURIs |-> {"r1"},
             AllowedScopes |-> {"profile"}, Status |-> "disabled"]]

\* appService.GetByClientID: an error for the empty id and for no row
GetByClientID(clientID) ==
  IF clientID # "" /\ clientID \in DOMAIN Applications
    THEN [err |-> Nil, app |-> Applications[clientID]]
    ELSE [err |-> "not found", app |-> Applications["c1"]]

\* Application.VerifyClientSecret: bcrypt.CompareHashAndPassword
VerifyClientSecret(app, secret) == app.ClientSecretHash = Bcrypt(secret)

\* base64url(sha256(verifier)): one digest per verifier, none of them a
\* verifier
S256(verifier) ==
  CASE verifier = "v1" -> "h1"
    [] verifier = "v2" -> "h2"
    [] verifier = "h1" -> "h3"
    [] verifier = ""   -> "h0"
    [] OTHER -> "h9"

\* verifyPKCE taking every method it does not know for "plain"
verifyPKCE_UnknownMethodAsPlain(challenge, method, verifier) ==
  IF method = "S256" THEN challenge = S256(verifier)
  ELSE challenge = verifier

\* OAuthHandler.verifyPKCE
verifyPKCE(challenge, method, verifier) ==
  IF method = "plain" \/ method = "" THEN challenge = verifier
  ELSE IF method = "S256" THEN challenge = S256(verifier)
  ELSE FALSE

\* isValidRedirectURI accepting any URI on the host of a registered one;
\* "r9" is another path on the host of "r1"
isValidRedirectURI_SameHost(allowedURIs, uri) ==
  LET Host(x) == IF x \in {"r1", "r9"} THEN "host1" ELSE x IN
    \E a \in allowedURIs : Host(a) = Host(uri)

\* OAuthHandler.isValidRedirectURI
isValidRedirectURI(allowedURIs, uri) == uri \in allowedURIs

\* isValidScopes letting a request through when one of its scopes is allowed
isValidScopes_AnyAllowed(allowedScopes, requestedScopes) ==
  \E sc \in requestedScopes : sc = "" \/ sc \in allowedScopes

\* OAuthHandler.isValidScopes; strings.Split leaves "" for an empty scope
isValidScopes(allowedScopes, requestedScopes) ==
  \A sc \in requestedScopes : sc = "" \/ sc \in allowedScopes

\* ---------------------------------- OAuthHandler.handleAuthorizationCode
HACName == "handleAuthorizationCode"

\* the checks of the request against the record ValidateAuthorizationCode
\* returned, in the handler's order: the error code, or Nil
HACCheck(authCode, req) ==
  LET found == GetByClientID(authCode.ClientID) IN
    IF found.err # Nil THEN "invalid_client"
    ELSE IF req.ClientID # "" /\ req.ClientID # authCode.ClientID
      THEN "invalid_client"
    ELSE IF req.ClientSecret # ""
              /\ ~VerifyClientSecret(found.app, req.ClientSecret)
      THEN "invalid_client"
    ELSE IF req.RedirectURI # "" /\ req.RedirectURI # authCode.RedirectURI
      THEN "invalid_grant"
    ELSE IF authCode.CodeChallenge # "" /\ req.CodeVerifier = ""
      THEN "invalid_request"
    ELSE IF authCode.CodeChallenge # ""
              /\ ~verifyPKCE(authCode.CodeChallenge,
                             authCode.CodeChallengeMethod, req.CodeVerifier)
      THEN "invalid_grant"
    ELSE Nil

containsScope_Always(scopes, target) == TRUE

\* for _, s := range scopes { if s == target { return true } }; return false
containsScope(scopes, target) == \E sc \in scopes : sc = target

\* the handler from the return of ValidateAuthorizationCode on: the checks,
\* GenerateAccessToken, GenerateRefreshToken, GenerateIDToken for the openid
\* scope, and the response
HACResume(w, err) ==
  LET req      == loc[w].req
      authCode == codeObjs[loc[w].code]
      claims   == [NoClaims EXCEPT !.UserID = authCode.UserID,
                                   !.ClientID = authCode.ClientID,
                                   !.Scopes = authCode.Scopes]
      access   == AccessToken(claims, FreshID(1))
      refresh  == RefreshTokenOf(claims, FreshID(2))
      id       == IDToken(claims, FreshID(3)) IN
    IF err # Nil
      THEN /\ Respond(w, HACName, req, "invalid_grant", Garbage, NoTokenString)
           /\ UNCHANGED issued
    ELSE IF HACCheck(authCode, req) # Nil
      THEN /\ Respond(w, HACName, req, HACCheck(authCode, req), Garbage,
                      NoTokenString)
           /\ UNCHANGED issued
    ELSE IF containsScope(authCode.Scopes, "openid")
      THEN /\ issued' = issued \cup {access, refresh, id}
           /\ Return(w, [NoRet EXCEPT !.op = HACName, !.req = req,
                                      !.token = access, !.refresh = refresh,
                                      !.idToken = id, !.status = 200])
      ELSE /\ issued' = issued \cup {access, refresh}
           /\ Respond(w, HACName, req, Nil, access, refresh)

\* ValidateAuthorizationCode returns err (and the record, when err is nil)
\* to its caller, the test or the handler
VACReturn(w, err) ==
  IF loc[w].op = VACName
    THEN /\ Return(w, [NoRet EXCEPT !.op = VACName, !.code = loc[w].code,
                                    !.err = err])
         /\ UNCHANGED issued
    ELSE HACResume(w, err)

\* code, exists := s.codes[codeStr]; if !exists { return ErrInvalidToken }
VAC_Lookup(w, c) ==
  /\ MayBegin(w)
  /\ IF c \notin codes
       THEN Return(w, [NoRet EXCEPT !.op = VACName, !.code = c,
                                    !.err = ErrInvalidToken])
       ELSE /\ pc'  = [pc EXCEPT ![w] = "vac_used"]
            /\ loc' = [loc EXCEPT ![w] = [NoLoc EXCEPT !.op = VACName,
                                                       !.code = c]]
            /\ UNCHANGED ret
  /\ UNCHANGED <<now, codes, codeObjs, revokedTokens, issued, redeemed,
                 casVars, rotations, sequential, storeVars, sessVars>>

\* if code.Used { return ErrCodeUsed }
VAC_CheckUsed(w) ==
  /\ pc[w] = "vac_used"
  /\ IF codeObjs[loc[w].code].Used
       THEN VACReturn(w, ErrCodeUsed)
       ELSE /\ pc' = [pc EXCEPT ![w] = "vac_expiry"]
            /\ UNCHANGED <<loc, ret, issued>>
  /\ UNCHANGED <<now, codes, codeObjs, revokedTokens, redeemed, casVars,
                 rotations, sequential, storeVars, sessVars>>

\* the expired record is refused and left in the map
VAC_CheckExpiry_NoEvict(w) ==
  /\ pc[w] = "vac_expiry"
  /\ IF now > codeObjs[loc[w].code].ExpiresAt
       THEN VACReturn(w, ErrCodeExpired)
       ELSE /\ pc' = [pc EXCEPT ![w] = "vac_mark"]
            /\ UNCHANGED <<loc, ret, issued>>
  /\ UNCHANGED <<now, codes, codeObjs, revokedTokens, redeemed, casVars,
                 rotations, sequential, storeVars, sessVars>>

\* if time.Now().After(code.ExpiresAt) { delete(s.codes, codeStr); ... }
VAC_CheckExpiry(w) ==
  /\ pc[w] = "vac_expiry"
  /\ IF now > codeObjs[loc[w].code].ExpiresAt
       THEN /\ codes' = codes \ {loc[w].code}
            /\ VACReturn(w, ErrCodeExpired)
       ELSE /\ pc' = [pc EXCEPT ![w] = "vac_mark"]
            /\ UNCHANGED <<codes, loc, ret, issued>>
  /\ UNCHANGED <<now, codeObjs, revokedTokens, redeemed, casVars, rotations,
                 sequential, storeVars, sessVars>>

\* ValidateAuthorizationCode returning the record without flagging it
VAC_MarkUsed_FlagNotSet(w) ==
  /\ pc[w] = "vac_mark"
  /\ codeObjs' = codeObjs
  /\ redeemed' = [redeemed EXCEPT ![loc[w].code] = @ + 1]
  /\ VACReturn(w, Nil)
  /\ UNCHANGED <<now, codes, revokedTokens, casVars, rotations, sequential,
                 storeVars, sessVars>>

\* code.Used = true; return code, nil
VAC_MarkUsed(w) ==
  /\ pc[w] = "vac_mark"
  /\ codeObjs' = [codeObjs EXCEPT ![loc[w].code].Used = TRUE]
  /\ redeemed' = [redeemed EXCEPT ![loc[w].code] = @ + 1]
  /\ VACReturn(w, Nil)
  /\ UNCHANGED <<now, codes, revokedTokens, casVars, rotations, sequential,
                 storeVars, sessVars>>

\* the handler up to the first access ValidateAuthorizationCode makes: the
\* request's code is required, and looked up in the map
handleAuthorizationCode_Begin(w, req) ==
  /\ MayBegin(w)
  /\ IF req.Code = 0
       THEN Respond(w, HACName, req, "invalid_request", Garbage,
                    NoTokenString)
       ELSE IF req.Code \notin codes
         THEN Respond(w, HACName, req, "invalid_grant", Garbage,
                      NoTokenString)
         ELSE /\ pc'  = [pc EXCEPT ![w] = "vac_used"]
              /\ loc' = [loc EXCEPT ![w] = [NoLoc EXCEPT !.op = HACName,
                                                         !.code = req.Code,
                                                         !.req = req]]
              /\ UNCHANGED ret
  /\ UNCHANGED <<now, codes, codeObjs, revokedTokens, issued, redeemed,
                 casVars, rotations, sequential, storeVars, sessVars>>

\* ------------------------------------------------- OAuthHandler.Authorize
\* handler.AuthorizeRequest; Scope is what strings.Split makes of the
\* parameter, {""} when it is empty or left out
NoAuthorizeRequest ==
  [ResponseType |-> "", ClientID |-> "", RedirectURI |-> "", Scope |-> {""},
   CodeChallenge |-> "", CodeChallengeMethod |-> ""]

\* the checks of Authorize without the one that makes a 2.1 client send a
\* code_challenge
AuthorizeCheck_PKCEOptional(req, userID) ==
  LET found == GetByClientID(req.ClientID)
      app   == found.app IN
    IF req.ResponseType = "" \/ req.ClientID = "" \/ req.RedirectURI = ""
      THEN "invalid_request"
    ELSE IF found.err # Nil THEN "invalid_client"
    ELSE IF ~isValidRedirectURI(app.RedirectURIs, req.RedirectURI)
      THEN "invalid_request"
    ELSE IF req.ResponseType # "code"
              /\ \/ req.ResponseType = "token" /\ app.OAuthVersion = "2.1"
                 \/ req.ResponseType # "token"
      THEN "unsupported_response_type"
    ELSE IF req.CodeChallenge # ""
              /\ req.CodeChallengeMethod \notin {"", "plain", "S256"}
      THEN "invalid_request"
    ELSE IF ~isValidScopes(app.AllowedScopes, req.Scope)
      THEN "invalid_scope"
    ELSE IF userID = NoUserID THEN "login"
    ELSE Nil

\* the checks of Authorize without the one on response_type
AuthorizeCheck_AnyResponseType(req, userID) ==
  LET found == GetByClientID(req.ClientID)
      app   == found.app IN
    IF req.ResponseType = "" \/ req.ClientID = "" \/ req.RedirectURI = ""
      THEN "invalid_request"
    ELSE IF found.err # Nil THEN "invalid_client"
    ELSE IF ~isValidRedirectURI(app.RedirectURIs, req.RedirectURI)
      THEN "invalid_request"
    ELSE IF app.OAuthVersion = "2.1" /\ req.CodeChallenge = ""
      THEN "invalid_request"
    ELSE IF req.CodeChallenge # ""
              /\ req.CodeChallengeMethod \notin {"", "plain", "S256"}
      THEN "invalid_request"
    ELSE IF ~isValidScopes(app.AllowedScopes, req.Scope)
      THEN "invalid_scope"
    ELSE IF userID = NoUserID THEN "login"
    ELSE Nil

\* the checks of Authorize in the handler's order: the error code, "login"
\* for the redirect to the login page, or Nil
AuthorizeCheck(req, userID) ==
  LET found == GetByClientID(req.ClientID)
      app   == found.app IN
    IF req.ResponseType = "" \/ req.ClientID = "" \/ req.RedirectURI = ""
      THEN "invalid_request"
    ELSE IF found.err # Nil THEN "invalid_client"
    ELSE IF ~isValidRedirectURI(app.RedirectURIs, req.RedirectURI)
      THEN "invalid_request"
    ELSE IF req.ResponseType # "code"
              /\ \/ req.ResponseType = "token" /\ app.OAuthVersion = "2.1"
                 \/ req.ResponseType # "token"
      THEN "unsupported_response_type"
    ELSE IF app.OAuthVersion = "2.1" /\ req.CodeChallenge = ""
      THEN "invalid_request"
    ELSE IF req.CodeChallenge # ""
              /\ req.CodeChallengeMethod \notin {"", "plain", "S256"}
      THEN "invalid_request"
    ELSE IF ~isValidScopes(app.AllowedScopes, req.Scope)
      THEN "invalid_scope"
    ELSE IF userID = NoUserID THEN "login"
    ELSE Nil

\* OAuthHandler.redirectError: the JSON error when the request names no
\* redirect_uri or one url.Parse refuses, otherwise the redirect to the
\* request's redirect_uri with the error in its query
redirectError(redirectURI, errorCode) ==
  IF redirectURI = "" \/ redirectURI = "%"
    THEN [status |-> 400, location |-> <<>>]
    ELSE [status |-> 302, location |-> <<redirectURI, "error", errorCode>>]

\* the whole handler: the checks, and GenerateAuthorizationCode for the
\* request that passes them; a challenge without a method is given "plain";
\* the response is its status and, for a redirect, where it sends the
\* browser: the login page with the request's own URL, the request's
\* redirect_uri with the code, or what redirectError makes of the error
Authorize(w, req, userID) ==
  /\ MayBegin(w)
  /\ Cardinality(DOMAIN codeObjs) < MaxAuthorized
  /\ IF AuthorizeCheck(req, userID) = "login"
       THEN /\ Return(w, [NoRet EXCEPT !.op = "Authorize", !.err = "login",
                                       !.status = 302,
                                       !.args = <<"/login", "redirect", req>>])
            /\ UNCHANGED <<codes, codeObjs>>
     ELSE IF AuthorizeCheck(req, userID) # Nil
       THEN /\ Return(w, [NoRet EXCEPT
                            !.op = "Authorize",
                            !.err = AuthorizeCheck(req, userID),
                            !.status =
                               redirectError(req.RedirectURI,
                                             AuthorizeCheck(req, userID)).status,
                            !.args =
                               redirectError(req.RedirectURI,
                                             AuthorizeCheck(req, userID)).location])
            /\ UNCHANGED <<codes, codeObjs>>
       ELSE /\ StoreCode([NoCode EXCEPT
                            !.ClientID = req.ClientID,
                            !.UserID = userID,
                            !.RedirectURI = req.RedirectURI,
                            !.Scopes = req.Scope,
                            !.CodeChallenge = req.CodeChallenge,
                            !.CodeChallengeMethod =
                               IF req.CodeChallenge # ""
                                    /\ req.CodeChallengeMethod = ""
                                 THEN "plain"
                                 ELSE req.CodeChallengeMethod])
            /\ Return(w, [NoRet EXCEPT !.op = "Authorize", !.code = FreshCode,
                                       !.status = 302,
                                       !.args = <<req.RedirectURI, "code",
                                                  FreshCode>>])
  /\ UNCHANGED <<now, revokedTokens, issued, redeemed, casVars, rotations,
                 sequential, storeVars, sessVars>>

\* the authorization requests a browser sends: one that a 2.1 client and
\* one that a legacy client gets a code for, and each with one parameter
\* changed
AuthorizeRequests ==
  LET Vary(good, scopes, challenges, methods) ==
        {good}
          \cup {[good EXCEPT !.ResponseType = x] : x \in {"", "token", "id"}}
          \cup {[good EXCEPT !.ClientID = x] : x \in {"", "c1", "c2", "c9"}}
          \cup {[good EXCEPT !.RedirectURI = x] : x \in {"", "r2", "r9"}}
          \cup {[good EXCEPT !.Scope = x] : x \in scopes}
          \cup {[good EXCEPT !.CodeChallenge = x] : x \in challenges}
          \cup {[good EXCEPT !.CodeChallengeMethod = x] : x \in methods}
  IN Vary([NoAuthorizeRequest EXCEPT
             !.ResponseType = "code", !.ClientID = "c1",
             !.RedirectURI = "r1", !.Scope = {"openid"},
             !.CodeChallenge = S256("v1"), !.CodeChallengeMethod = "S256"],
          {{"openid", "admin"}}, {""}, {"", "S512"})
       \cup Vary([NoAuthorizeRequest EXCEPT
                    !.ResponseType = "code", !.ClientID = "c2",
                    !.RedirectURI = "r2", !.Scope = {"profile"}],
                 {{""}, {"admin"}}, {"v1"}, {})

\* the token requests a client sends for the code c: the one that repeats
\* what the code is bound to, and that one with a parameter changed or two
\* parameters left out
CodeRequests(c) ==
  LET bound == IF c \in DOMAIN codeObjs THEN codeObjs[c] ELSE NoCode
      good  == [NoTokenRequest EXCEPT
                  !.GrantType = "authorization_code", !.Code = c,
                  !.ClientID = bound.ClientID,
                  !.RedirectURI = bound.RedirectURI,
                  !.CodeVerifier = IF bound.CodeChallenge = "" THEN ""
                                                              ELSE "v1"]
  IN {good, [good EXCEPT !.ClientID = "", !.RedirectURI = ""]}
       \cup {[good EXCEPT !.ClientID = x] : x \in {"", "c1", "c2"}}
       \cup {[good EXCEPT !.ClientSecret = x] : x \in {"s1", "s2"}}
       \cup {[good EXCEPT !.RedirectURI = x] : x \in {"", "r1", "r2"}}
       \cup {[good EXCEPT !.CodeVerifier = x] : x \in {"", "v1", "v2", "h1"}}

\* ------------------------------------------- the token service on its own
ClaimInputs == {[NoClaims EXCEPT !.UserID = u] : u \in Users}
CodeInputs  == {[NoCode EXCEPT !.ClientID = "c1", !.UserID = u,
                               !.RedirectURI = "r1"] : u \in Users}
CodeStrings == 1..MaxCodes

\* model.RoleSuperAdmin and model.ActionAll
RoleSuperAdmin == "super_admin"
ActionAll      == "*"

InitState ==
  /\ now = 0
  /\ codes = {}
  /\ codeObjs = [c \in {} |-> NoCode]
  /\ revokedTokens = [t \in {} |-> 0]
  /\ issued = {}
  /\ pc = [w \in Workers |-> "idle"]
  /\ loc = [w \in Workers |-> NoLoc]
  /\ ret = NoRet
  /\ redeemed = [c \in CodeStrings |-> 0]
  /\ tgts = [g \in {} |-> 0]
  /\ sts = [t \in {} |-> 0]
  /\ tgtSeq = 0
  /\ stMinted = [t \in {} |-> NoST]
  /\ validated = [t \in 1..MaxSTs |-> 0]
  /\ rotations = {}
  /\ roleTable = [id \in {1} |->
                    [ID |-> 1, Code |-> RoleSuperAdmin, Name |-> "n0",
                     IsSystem |-> TRUE]]
  /\ userTable = [name \in {"alice", "bob"} |->
                    [Status |-> IF name = "alice" THEN "active" ELSE "disabled",
                     PasswordHash |-> Bcrypt("pw"),
                     FailedLoginCount |-> 0, LockedUntil |-> 0]]
  /\ wrongStreak = [name \in {"alice", "bob"} |-> 0]
  /\ sessions = [id \in {} |-> 0]
  /\ userSessions = [u \in {} |-> 0]
  /\ created = [id \in {} |-> 0]

\* requests are served concurrently, as the router serves them
Init == InitState /\ sequential = FALSE

\* requests are served one after the other
InitSeq == InitState /\ sequential = TRUE

\* signing, validation and revocation: every call is one atomic access
SpecJWT ==
  Init /\
  [][\/ Tick
     \/ \E w \in Workers :
          \/ \E cl \in ClaimInputs : GenerateAccessToken(w, cl)
          \/ \E cl \in ClaimInputs : GenerateRefreshToken(w, cl)
          \/ \E cl \in ClaimInputs : GenerateIDToken(w, cl)
          \/ \E t \in Presentable : ValidateTokenCall(w, t)
          \/ \E t \in Presentable : RevokeToken(w, t)]_vars

NextCode ==
  \/ Tick
  \/ \E w \in Workers :
       \/ \E code \in CodeInputs : GenerateAuthorizationCode(w, code)
       \/ \E c \in CodeStrings : VAC_Lookup(w, c)
       \/ VAC_CheckUsed(w)
       \/ VAC_CheckExpiry(w)
       \/ VAC_MarkUsed(w)

\* the authorization endpoint and the authorization_code grant of the token
\* endpoint, requests served one after the other
SpecOAuthSeq ==
  InitSeq /\
  [][\/ Tick
     \/ \E w \in Workers :
          \/ \E req \in AuthorizeRequests, u \in Users \cup {NoUserID} :
               Authorize(w, req, u)
          \/ \E c \in CodeStrings \cup {0} : \E req \in CodeRequests(c) :
               handleAuthorizationCode_Begin(w, req)
          \/ VAC_CheckUsed(w)
          \/ VAC_CheckExpiry(w)
          \/ VAC_MarkUsed(w)]_vars

\* authorization requests of a logged-in user that are in order but for
\* their scope parameter, which ranges over lists of scope names, the empty
\* parameter and a parameter with a doubled space
ScopeRequests ==
  {[NoAuthorizeRequest EXCEPT
      !.ResponseType = "code", !.ClientID = c, !.RedirectURI = "r1",
      !.CodeChallenge = S256("v1"), !.CodeChallengeMethod = "S256",
      !.Scope = sc] :
     c \in DOMAIN Applications,
     sc \in (SUBSET {"openid", "profile", "admin"} \ {{}})
              \cup {{""}, {"", "openid"}, {"", "admin"}}}

\* the authorization endpoint on its own
SpecAuthorize ==
  Init /\
  [][\/ Tick
     \/ \E w \in Workers, req \in AuthorizeRequests \cup ScopeRequests,
           u \in Users \cup {NoUserID} : Authorize(w, req, u)]_vars

\* the verifiers verifyPKCE is called with
PKCEVerifiers == {"", "v1", "v2", "h1"}

\* a call of verifyPKCE, which reads and writes nothing shared
verifyPKCE_Call(w, challenge, method, verifier) ==
  /\ MayBegin(w)
  /\ Return(w, [NoRet EXCEPT !.op = "verifyPKCE",
                             !.args = <<challenge, method, verifier>>,
                             !.ok = verifyPKCE(challenge, method, verifier)])
  /\ UNCHANGED <<now, tokenVars, casVars, rotations, sequential, storeVars,
                 sessVars>>

\* verifyPKCE on its own
SpecPKCE ==
  Init /\
  [][\E w \in Workers, v \in PKCEVerifiers,
        c \in PKCEVerifiers \cup {S256(x) : x \in PKCEVerifiers},
        m \in {"", "plain", "S256", "s256", "S512"} : verifyPKCE_Call(w, c, m, v)]_vars

\* authorization codes, goroutines running concurrently
SpecCode == Init /\ [][NextCode]_vars

\* authorization codes, calls running one after the other
SpecCodeSeq == InitSeq /\ [][NextCode]_vars

\* =================================================== the CAS ticket engine
Services == {"svcA", "svcB"}
TGTIds   == 1..MaxTGTs
Tickets  == 1..MaxSTs
NoTTL    == -1

\* json.Marshal and json.Unmarshal: the struct's fields under their json tags
\* (created_at is written and never read)
MarshalTGT(g) ==
  [id |-> g.ID, user_id |-> g.UserID, session_id |-> g.SessionID,
   expires_at |-> g.ExpiresAt]

\* the expiry is not read back
UnmarshalTGT_NoExpiry(d) ==
  [ID |-> d.id, UserID |-> d.user_id, SessionID |-> d.session_id,
   ExpiresAt |-> MaxTime + 1]

UnmarshalTGT(d) ==
  [ID |-> d.id, UserID |-> d.user_id, SessionID |-> d.session_id,
   ExpiresAt |-> d.expires_at]

MarshalST(st) ==
  [ticket |-> st.Ticket, tgt_id |-> st.TGTID, user_id |-> st.UserID,
   service |-> st.Service, used |-> st.Used, expires_at |-> st.ExpiresAt]

UnmarshalST(d) ==
  [Ticket |-> d.ticket, TGTID |-> d.tgt_id, UserID |-> d.user_id,
   Service |-> d.service, Used |-> d.used, ExpiresAt |-> d.expires_at]

\* redis SET key value [PX ttl]: go-redis sends no expiry for a ttl <= 0
RedisSet(m, k, data, ttl) ==
  [x \in DOMAIN m \cup {k} |->
     IF x = k THEN [data |-> data,
                    exp |-> IF ttl > 0 THEN now + ttl ELSE NoTTL]
              ELSE m[x]]

\* redis DEL key
RedisDel(m, k) == [x \in DOMAIN m \ {k} |-> m[x]]

\* the store drops a key whose time to live has run out; its clock may lag
\* behind the service's
Lapsed(m, k) == k \in DOMAIN m /\ m[k].exp # NoTTL /\ now >= m[k].exp

RedisExpireTGT(g) ==
  /\ Lapsed(tgts, g)
  /\ tgts' = RedisDel(tgts, g)
  /\ UNCHANGED <<now, sts, tgtSeq, stMinted, validated, pc, loc, ret,
                 tokenVars, rotations, sequential, storeVars, sessVars>>

RedisExpireST(t) ==
  /\ Lapsed(sts, t)
  /\ sts' = RedisDel(sts, t)
  /\ UNCHANGED <<now, tgts, tgtSeq, stMinted, validated, pc, loc, ret,
                 tokenVars, rotations, sequential, storeVars, sessVars>>

\* ------------------------------------------------ sessionService.CreateTGT
CreateTGT(w, userID, sessionID) ==
  /\ MayBegin(w)
  /\ tgtSeq < MaxTGTs
  /\ LET g == [ID |-> tgtSeq + 1, UserID |-> userID, SessionID |-> sessionID,
               ExpiresAt |-> now + TGTExpiry] IN
       /\ tgts' = RedisSet(tgts, g.ID, MarshalTGT(g), TGTExpiry)
       /\ Return(w, [NoRet EXCEPT !.op = "CreateTGT", !.tgt = g.ID])
  /\ tgtSeq' = tgtSeq + 1
  /\ UNCHANGED <<now, sts, stMinted, validated, tokenVars, rotations,
                 sequential, storeVars, sessVars>>

\* ------------------------------------------------ sessionService.DeleteTGT
DeleteTGT(w, g) ==
  /\ MayBegin(w)
  /\ tgts' = RedisDel(tgts, g)
  /\ Return(w, [NoRet EXCEPT !.op = "DeleteTGT", !.tgt = g])
  /\ UNCHANGED <<now, sts, tgtSeq, stMinted, validated, tokenVars, rotations,
                 sequential, storeVars, sessVars>>

\* ------------------------------------------------- sessionService.CreateST
\* tgt, err := s.GetTGT(ctx, tgtID): the GET, and the expiry check on what
\* it returned
CST_GetTGT(w, g, service) ==
  /\ MayBegin(w)
  /\ Cardinality(DOMAIN stMinted)
       + Cardinality({v \in Workers : pc[v] = "cst_set"}) < MaxSTs
  /\ IF g \notin DOMAIN tgts
       THEN Return(w, [NoRet EXCEPT !.op = "CreateST", !.tgt = g,
                                    !.service = service,
                                    !.err = ErrTGTNotFound])
       ELSE LET tgt == UnmarshalTGT(tgts[g].data) IN
         /\ pc' = [pc EXCEPT ![w] = IF now > tgt.ExpiresAt THEN "cst_del"
                                                           ELSE "cst_set"]
         /\ loc' = [loc EXCEPT ![w] =
                      [NoLoc EXCEPT !.op = "CreateST", !.tgt = g,
                                    !.service = service,
                                    !.st = [NoST EXCEPT !.TGTID = g,
                                                        !.UserID = tgt.UserID,
                                                        !.Service = service]]]
         /\ UNCHANGED ret
  /\ UNCHANGED <<now, casVars, tokenVars, rotations, sequential, storeVars,
                 sessVars>>

\* GetTGT found the TGT expired: s.DeleteTGT(ctx, tgtID); return ErrTGTExpired
CST_DelTGT(w) ==
  /\ pc[w] = "cst_del"
  /\ tgts' = RedisDel(tgts, loc[w].tgt)
  /\ Return(w, [NoRet EXCEPT !.op = "CreateST", !.tgt = loc[w].tgt,
                             !.service = loc[w].service,
                             !.err = ErrTGTExpired])
  /\ UNCHANGED <<now, sts, tgtSeq, stMinted, validated, tokenVars, rotations,
                 sequential, storeVars, sessVars>>

\* the ticket is built and stored: s.redis.Set(ctx, key, data, STExpiry)
CST_Set(w) ==
  /\ pc[w] = "cst_set"
  /\ LET st == [loc[w].st EXCEPT !.Ticket = Cardinality(DOMAIN stMinted) + 1,
                                 !.Used = FALSE,
                                 !.ExpiresAt = now + STExpiry] IN
       /\ sts' = RedisSet(sts, st.Ticket, MarshalST(st), STExpiry)
       /\ stMinted' = [t \in DOMAIN stMinted \cup {st.Ticket} |->
                         IF t = st.Ticket THEN st ELSE stMinted[t]]
       /\ Return(w, [NoRet EXCEPT !.op = "CreateST", !.tgt = st.TGTID,
                                  !.service = st.Service,
                                  !.ticket = st.Ticket, !.st = st])
  /\ UNCHANGED <<now, tgts, tgtSeq, validated, tokenVars, rotations,
                 sequential, storeVars, sessVars>>

\* ------------------------------------------------ sessionService.ValidateST
VSTName == "ValidateST"

\* the checks ValidateST makes on the ticket it read, in the order it makes
\* them, checking the service before the used flag
STCheck_ServiceFirst(st, service, clock) ==
  IF clock > st.ExpiresAt THEN ErrSTExpired
  ELSE IF st.Service # service THEN ErrServiceMismatch
  ELSE IF st.Used THEN ErrSTUsed
  ELSE Nil

\* the service the ticket was minted for is not compared
STCheck_AnyService(st, service, clock) ==
  IF clock > st.ExpiresAt THEN ErrSTExpired
  ELSE IF st.Used THEN ErrSTUsed
  ELSE Nil

\* the checks ValidateST makes on the ticket it read, in the order it makes
\* them: st.IsExpired(), st.Used, st.Service != service
STCheck(st, service, clock) ==
  IF clock > st.ExpiresAt THEN ErrSTExpired
  ELSE IF st.Used THEN ErrSTUsed
  ELSE IF st.Service # service THEN ErrServiceMismatch
  ELSE Nil

VSTReturn(w, ticket, service, err, st) ==
  Return(w, [NoRet EXCEPT !.op = VSTName, !.ticket = ticket,
                          !.service = service, !.err = err, !.st = st])

\* the ticket is refused when the TGT it was minted under is gone
VST_Get_ChecksTGT(w, ticket, service) ==
  /\ MayBegin(w)
  /\ IF ticket \notin DOMAIN sts
       THEN VSTReturn(w, ticket, service, ErrSTNotFound, NoST)
       ELSE LET st  == UnmarshalST(sts[ticket].data)
                err == IF st.TGTID \notin DOMAIN tgts THEN ErrSTUsed
                       ELSE STCheck(st, service, now) IN
         IF err \in {ErrSTUsed, ErrServiceMismatch}
           THEN VSTReturn(w, ticket, service, err, NoST)
           ELSE /\ pc' = [pc EXCEPT ![w] = IF err = ErrSTExpired
                                             THEN "vst_del" ELSE "vst_set"]
                /\ loc' = [loc EXCEPT ![w] =
                             [NoLoc EXCEPT !.op = VSTName, !.ticket = ticket,
                                           !.service = service, !.st = st]]
                /\ UNCHANGED ret
  /\ UNCHANGED <<now, casVars, tokenVars, rotations, sequential, storeVars,
                 sessVars>>

\* s.redis.Get(ctx, key), json.Unmarshal, and the checks on the copy read
VST_Get(w, ticket, service) ==
  /\ MayBegin(w)
  /\ IF ticket \notin DOMAIN sts
       THEN VSTReturn(w, ticket, service, ErrSTNotFound, NoST)
       ELSE LET st  == UnmarshalST(sts[ticket].data)
                err == STCheck(st, service, now) IN
         IF err \in {ErrSTUsed, ErrServiceMismatch}
           THEN VSTReturn(w, ticket, service, err, NoST)
           ELSE /\ pc' = [pc EXCEPT ![w] = IF err = ErrSTExpired
                                             THEN "vst_del" ELSE "vst_set"]
                /\ loc' = [loc EXCEPT ![w] =
                             [NoLoc EXCEPT !.op = VSTName, !.ticket = ticket,
                                           !.service = service, !.st = st]]
                /\ UNCHANGED ret
  /\ UNCHANGED <<now, casVars, tokenVars, rotations, sequential, storeVars,
                 sessVars>>

\* the ticket read was expired: s.redis.Del(ctx, key); return ErrSTExpired
VST_Del(w) ==
  /\ pc[w] = "vst_del"
  /\ sts' = RedisDel(sts, loc[w].ticket)
  /\ VSTReturn(w, loc[w].ticket, loc[w].service, ErrSTExpired, NoST)
  /\ UNCHANGED <<now, tgts, tgtSeq, stMinted, validated, tokenVars, rotations,
                 sequential, storeVars, sessVars>>

\* st.Used = true on the copy; the copy is written back without the flag
VST_Set_UsedNotStored(w) ==
  /\ pc[w] = "vst_set"
  /\ LET st == [loc[w].st EXCEPT !.Used = TRUE] IN
       /\ sts' = RedisSet(sts, st.Ticket, MarshalST(loc[w].st),
                          st.ExpiresAt - now)
       /\ validated' = [validated EXCEPT ![st.Ticket] = @ + 1]
       /\ VSTReturn(w, st.Ticket, loc[w].service, Nil, st)
  /\ UNCHANGED <<now, tgts, tgtSeq, stMinted, tokenVars, rotations,
                 sequential, storeVars, sessVars>>

\* st.Used = true on the copy; the copy is written back for what is left of
\* the ticket's life, s.redis.Set(ctx, key, updatedData,
\* time.Until(st.ExpiresAt)); return &st
VST_Set(w) ==
  /\ pc[w] = "vst_set"
  /\ LET st == [loc[w].st EXCEPT !.Used = TRUE] IN
       /\ sts' = RedisSet(sts, st.Ticket, MarshalST(st), st.ExpiresAt - now)
       /\ validated' = [validated EXCEPT ![st.Ticket] = @ + 1]
       /\ VSTReturn(w, st.Ticket, loc[w].service, Nil, st)
  /\ UNCHANGED <<now, tgts, tgtSeq, stMinted, tokenVars, rotations,
                 sequential, storeVars, sessVars>>

NextCAS ==
  \/ Tick
  \/ \E g \in TGTIds : RedisExpireTGT(g)
  \/ \E t \in Tickets : RedisExpireST(t)
  \/ \E w \in Workers :
       \/ \E u \in Users : CreateTGT(w, u, "s1")
       \/ \E g \in TGTIds : DeleteTGT(w, g)
       \/ \E g \in TGTIds, s \in Services : CST_GetTGT(w, g, s)
       \/ CST_DelTGT(w)
       \/ CST_Set(w)
       \/ \E t \in Tickets, s \in Services : VST_Get(w, t, s)
       \/ VST_Del(w)
       \/ VST_Set(w)

\* the ticket engine, its calls running concurrently
SpecCAS == Init /\ [][NextCAS]_vars

\* the ticket engine, one call at a time
SpecCASSeq == InitSeq /\ [][NextCAS]_vars

\* s.redis.Set(...) fails, or its context is cancelled: the result of the
\* call is not looked at, the store keeps the ticket as it was and the
\* ticket is returned
VST_SetFailed(w) ==
  /\ pc[w] = "vst_set"
  /\ validated[loc[w].st.Ticket] < MaxFailedWrites
  /\ LET st == [loc[w].st EXCEPT !.Used = TRUE] IN
       /\ validated' = [validated EXCEPT ![st.Ticket] = @ + 1]
       /\ VSTReturn(w, st.Ticket, loc[w].service, Nil, st)
  /\ UNCHANGED <<now, tgts, sts, tgtSeq, stMinted, tokenVars, rotations,
                 sequential, storeVars, sessVars>>

\* the ticket engine, one call at a time, over a store whose writes can fail
SpecCASFaultySeq ==
  InitSeq /\ [][NextCAS \/ \E w \in Workers : VST_SetFailed(w)]_vars

\* ======================================================= browser sessions
\* the whole set goes with the member
SRem_WholeSet(m, k, member) == RedisDel(m, k)

\* redis SREM key member: a set left empty is no key any more
SRem(m, k, member) ==
  IF k \notin DOMAIN m THEN m
  ELSE IF m[k].data \ {member} = {} THEN RedisDel(m, k)
  ELSE [m EXCEPT ![k].data = @ \ {member}]

\* the store drops a session key, and an index key, whose time to live has
\* run out
RedisExpireSession(id) ==
  /\ Lapsed(sessions, id)
  /\ sessions' = RedisDel(sessions, id)
  /\ UNCHANGED <<now, tokenVars, casVars, rotations, sequential, storeVars,
                 userSessions, created, pc, loc, ret>>

RedisExpireIndex(u) ==
  /\ Lapsed(userSessions, u)
  /\ userSessions' = RedisDel(userSessions, u)
  /\ UNCHANGED <<now, tokenVars, casVars, rotations, sequential, storeVars,
                 sessions, created, pc, loc, ret>>

\* sessionService.Create: the id is new (uuid.New, or one the caller has not
\* used before); ExpiresAt 0 is the zero time and becomes now + SessionExpiry;
\* the session is stored under its json tags for the time it has left, its id
\* added to the owner's index, and the index given SessionExpiry + one hour
Create(w, userID, expiresAt) ==
  /\ MayBegin(w)
  /\ Cardinality(DOMAIN created) < MaxSessions
  /\ LET id      == Cardinality(DOMAIN created) + 1
         session == [ID |-> id, UserID |-> userID,
                     ExpiresAt |-> IF expiresAt = 0 THEN now + SessionExpiry
                                                    ELSE expiresAt]
         members == IF userID \in DOMAIN userSessions
                      THEN userSessions[userID].data ELSE {} IN
       IF session.ExpiresAt - now <= 0
         THEN /\ Return(w, [NoRet EXCEPT !.op = "Create",
                                         !.err = "invalid expiry"])
              /\ UNCHANGED sessVars
         ELSE /\ sessions' = RedisSet(sessions, id,
                                      [id |-> session.ID,
                                       user_id |-> session.UserID,
                                       expires_at |-> session.ExpiresAt],
                                      session.ExpiresAt - now)
              /\ userSessions' = RedisSet(userSessions, userID,
                                          members \cup {id},
                                          SessionExpiry + IndexGrace)
              /\ created' = [x \in DOMAIN created \cup {id} |->
                               IF x = id THEN session ELSE created[x]]
              /\ Return(w, [NoRet EXCEPT !.op = "Create", !.code = id])
  /\ UNCHANGED <<now, tokenVars, casVars, rotations, sequential, storeVars>>

\* sessionService.Get: a session past its ExpiresAt is deleted and taken out
\* of its owner's index
Get(w, id) ==
  /\ MayBegin(w)
  /\ IF id \notin DOMAIN sessions
       THEN /\ Return(w, [NoRet EXCEPT !.op = "Get", !.code = id,
                                       !.err = "ErrSessionNotFound"])
            /\ UNCHANGED <<sessions, userSessions>>
     ELSE IF now > sessions[id].data.expires_at
       THEN /\ sessions' = RedisDel(sessions, id)
            /\ userSessions' = SRem(userSessions, sessions[id].data.user_id, id)
            /\ Return(w, [NoRet EXCEPT !.op = "Get", !.code = id,
                                       !.err = "ErrSessionExpired"])
       ELSE /\ Return(w, [NoRet EXCEPT
                            !.op = "Get", !.code = id,
                            !.args = <<[ID |-> sessions[id].data.id,
                                        UserID |-> sessions[id].data.user_id,
                                        ExpiresAt |->
                                          sessions[id].data.expires_at]>>])
            /\ UNCHANGED <<sessions, userSessions>>
  /\ UNCHANGED <<now, tokenVars, casVars, rotations, sequential, storeVars,
                 created>>

\* the session's TGTs are deleted with it
Delete_WithTGTs(w, sessionID) ==
  /\ MayBegin(w)
  /\ sessions' = RedisDel(sessions, sessionID)
  /\ UNCHANGED <<userSessions, created, sts, tgtSeq, stMinted, validated>>
  /\ tgts' = [g \in {x \in DOMAIN tgts : tgts[x].data.session_id # sessionID}
                |-> tgts[g]]
  /\ Return(w, [NoRet EXCEPT !.op = "Delete", !.code = sessionID])
  /\ UNCHANGED <<now, tokenVars, rotations, sequential, storeVars>>

\* sessionService.Delete: the Get (which removes an expired session itself),
\* the DEL of the key, and the SREM from the index of the user Get returned;
\* nil whether or not there was a session
Delete(w, sessionID) ==
  /\ MayBegin(w)
  /\ sessions' = RedisDel(sessions, sessionID)
  /\ userSessions' =
       IF sessionID \in DOMAIN sessions
         THEN SRem(userSessions, sessions[sessionID].data.user_id, sessionID)
         ELSE userSessions
  /\ Return(w, [NoRet EXCEPT !.op = "Delete", !.code = sessionID])
  /\ UNCHANGED <<now, tokenVars, casVars, rotations, sequential, storeVars,
                 created>>

\* sessionService.DeleteByUserID: the members of the user's index are
\* deleted, then the index
DeleteByUserID(w, userID) ==
  /\ MayBegin(w)
  /\ LET members == IF userID \in DOMAIN userSessions
                      THEN userSessions[userID].data ELSE {} IN
       sessions' = [id \in DOMAIN sessions \ members |-> sessions[id]]
  /\ userSessions' = RedisDel(userSessions, userID)
  /\ Return(w, [NoRet EXCEPT !.op = "DeleteByUserID", !.args = <<userID>>])
  /\ UNCHANGED <<now, tokenVars, casVars, rotations, sequential, storeVars,
                 created>>

\* sessionService.ListByUserID: Get on every member of the user's index;
\* the members Get does not return are taken out of the index (and deleted,
\* when they were expired); the order of the members does not change the
\* outcome
ListByUserID(w, userID) ==
  /\ MayBegin(w)
  /\ LET members == IF userID \in DOMAIN userSessions
                      THEN userSessions[userID].data ELSE {}
         live    == {id \in members \cap DOMAIN sessions :
                       ~(now > sessions[id].data.expires_at)} IN
       /\ sessions' = [id \in DOMAIN sessions \ (members \ live) |->
                         sessions[id]]
       /\ userSessions' =
            IF userID \notin DOMAIN userSessions THEN userSessions
            ELSE IF live = {} THEN RedisDel(userSessions, userID)
            ELSE [userSessions EXCEPT ![userID].data = live]
       /\ Return(w, [NoRet EXCEPT !.op = "ListByUserID",
                                  !.args = <<userID>>, !.list = live])
  /\ UNCHANGED <<now, tokenVars, casVars, rotations, sequential, storeVars,
                 created>>

\* the session service's calls, one at a time
SpecSessionSeq ==
  InitSeq /\
  [][\/ Tick
     \/ \E id \in 1..MaxSessions : RedisExpireSession(id)
     \/ \E u \in {"u1", "u2"} : RedisExpireIndex(u)
     \/ \E w \in Workers :
          \/ \E u \in {"u1", "u2"}, expiresAt \in {0, now + 3} :
               Create(w, u, expiresAt)
          \/ \E id \in 1..MaxSessions : Get(w, id)
          \/ \E id \in 1..MaxSessions : Delete(w, id)
          \/ \E u \in {"u1", "u2"} : DeleteByUserID(w, u)
          \/ \E u \in {"u1", "u2"} : ListByUserID(w, u)]_vars

\* sessions that outlive the behaviour, and the tickets granted to the
\* sessions' users, one call at a time
SpecSessionTicketsSeq ==
  InitSeq /\
  [][\/ Tick
     \/ \E g \in TGTIds : RedisExpireTGT(g)
     \/ \E w \in Workers :
          \/ \E u \in {"u1", "u2"} : Create(w, u, MaxTime + 1)
          \/ \E id \in 1..MaxSessions : Delete(w, id)
          \/ \E u \in {"u1", "u2"} : DeleteByUserID(w, u)
          \/ \E id \in DOMAIN created :
               CreateTGT(w, created[id].UserID, id)
          \/ \E g \in TGTIds : DeleteTGT(w, g)
          \/ \E g \in TGTIds, sv \in Services : CST_GetTGT(w, g, sv)
          \/ CST_DelTGT(w)
          \/ CST_Set(w)]_vars

\* ============================================== refresh token rotation
\* exchanges answered with a new pair, and calls about to be answered so
RotationsClaimed ==
  Cardinality(rotations)
    + Cardinality({v \in Workers : pc[v] \in {"hrt_rotate", "art_rotate"}})

\* both handlers, up to the revocation: the request's token is validated
\* with ValidateToken and its type is compared with "refresh"
RotateValidate(w, op, req, missing, invalid, next) ==
  /\ MayBegin(w)
  /\ LET v == ValidateToken(req.RefreshToken) IN
       IF req.RefreshToken = NoTokenString
         THEN Respond(w, op, req, missing, Garbage, NoTokenString)
       ELSE IF v.err # Nil \/ v.claims.Type # "refresh"
         THEN Respond(w, op, req, invalid, Garbage, NoTokenString)
       ELSE /\ RotationsClaimed < MaxRotations
            /\ pc' = [pc EXCEPT ![w] = next]
            /\ loc' = [loc EXCEPT ![w] = [NoLoc EXCEPT !.op = op,
                                                       !.req = req,
                                                       !.claims = v.claims]]
            /\ UNCHANGED ret
  /\ UNCHANGED <<now, tokenVars, casVars, rotations, sequential, storeVars,
                 sessVars>>

\* the new pair is issued and the presented token is left unrevoked
RotateIssue_NoRevocation(w, op, at, newClaims) ==
  /\ pc[w] = at
  /\ LET old     == loc[w].req.RefreshToken
         access  == AccessToken(newClaims, FreshID(1))
         refresh == RefreshTokenOf(newClaims, FreshID(2)) IN
       /\ revokedTokens' = revokedTokens
       /\ issued' = issued \cup {access, refresh}
       /\ rotations' = rotations \cup {<<old, refresh>>}
       /\ Respond(w, op, loc[w].req, Nil, access, refresh)
  /\ UNCHANGED <<now, codes, codeObjs, redeemed, casVars, sequential,
                 storeVars, sessVars>>

\* both handlers, from the revocation on: RevokeToken(req.RefreshToken),
\* GenerateAccessToken(newClaims), GenerateRefreshToken(newClaims), respond
RotateIssue(w, op, at, newClaims) ==
  /\ pc[w] = at
  /\ LET old     == loc[w].req.RefreshToken
         access  == AccessToken(newClaims, FreshID(1))
         refresh == RefreshTokenOf(newClaims, FreshID(2)) IN
       /\ revokedTokens' = Revoke(revokedTokens, old, now)
       /\ issued' = issued \cup {access, refresh}
       /\ rotations' = rotations \cup {<<old, refresh>>}
       /\ Respond(w, op, loc[w].req, Nil, access, refresh)
  /\ UNCHANGED <<now, codes, codeObjs, redeemed, casVars, sequential,
                 storeVars, sessVars>>

\* requests presenting an issued token, a forged one, or none
RefreshRequests ==
  {[NoTokenRequest EXCEPT !.GrantType = "refresh_token", !.RefreshToken = t] :
     t \in issued \cup {TamperSignature(t) : t \in issued}
                  \cup {NoTokenString}}

\* ------------------------------------------ OAuthHandler.handleRefreshToken
HRTName == "handleRefreshToken"

handleRefreshToken_Validate(w, req) ==
  RotateValidate(w, HRTName, req, "invalid_request", "invalid_grant",
                 "hrt_rotate")

\* newClaims keeps UserID, ClientID and Scopes of the presented token
handleRefreshToken_Rotate(w) ==
  RotateIssue(w, HRTName, "hrt_rotate",
              [NoClaims EXCEPT !.UserID = loc[w].claims.UserID,
                               !.ClientID = loc[w].claims.ClientID,
                               !.Scopes = loc[w].claims.Scopes])

\* ------------------------------------------------- AuthHandler.RefreshToken
ARTName == "RefreshToken"

RefreshToken_Validate(w, req) ==
  RotateValidate(w, ARTName, req, "CodeInvalidRequest",
                 "CodeInvalidRefreshToken", "art_rotate")

\* newClaims keeps UserID and Scopes of the presented token, not ClientID
RefreshToken_Rotate(w) ==
  RotateIssue(w, ARTName, "art_rotate",
              [NoClaims EXCEPT !.UserID = loc[w].claims.UserID,
                               !.Scopes = loc[w].claims.Scopes])

GrantClaims ==
  {[NoClaims EXCEPT !.UserID = u, !.ClientID = "c1", !.Scopes = {"openid"}] :
     u \in Users}

NextRefresh ==
  \/ Tick
  \/ \E w \in Workers :
       \/ \E cl \in GrantClaims : GenerateAccessToken(w, cl)
       \/ \E cl \in GrantClaims : GenerateRefreshToken(w, cl)
       \/ \E t \in issued : RevokeToken(w, t)
       \/ \E req \in RefreshRequests : handleRefreshToken_Validate(w, req)
       \/ handleRefreshToken_Rotate(w)
       \/ \E req \in RefreshRequests : RefreshToken_Validate(w, req)
       \/ RefreshToken_Rotate(w)

\* refresh token rotation, requests served concurrently
SpecRefresh == Init /\ [][NextRefresh]_vars

\* refresh token rotation, requests served one after the other
SpecRefreshSeq == InitSeq /\ [][NextRefresh]_vars

\* ====================================== rbacService: the roles table
\* CreateRole: a code already in the table is refused; the row gets a new id
CreateRole(w, role) ==
  /\ MayBegin(w)
  /\ Cardinality(DOMAIN roleTable) < MaxRoleRows
  /\ LET id == CHOOSE i \in 1..MaxRoleRows : i \notin DOMAIN roleTable IN
       IF \E i \in DOMAIN roleTable : roleTable[i].Code = role.Code
         THEN /\ Return(w, [NoRet EXCEPT !.op = "CreateRole",
                                         !.err = "ErrRoleCodeExists"])
              /\ UNCHANGED roleTable
         ELSE /\ roleTable' = [i \in DOMAIN roleTable \cup {id} |->
                                 IF i = id THEN [role EXCEPT !.ID = id]
                                           ELSE roleTable[i]]
              /\ Return(w, [NoRet EXCEPT !.op = "CreateRole", !.code = id])
  /\ UNCHANGED <<now, tokenVars, casVars, rotations, sequential, userTable,
                 wrongStreak, sessVars>>

\* UpdateRole: a system role is refused only when its code would change;
\* db.Save writes every field of the role passed in; the unique index on
\* code refuses a code another row carries
UpdateRole(w, role) ==
  /\ MayBegin(w)
  /\ IF role.ID \notin DOMAIN roleTable
       THEN /\ Return(w, [NoRet EXCEPT !.op = "UpdateRole", !.code = role.ID,
                                       !.err = "ErrRoleNotFound"])
            /\ UNCHANGED roleTable
     ELSE IF /\ roleTable[role.ID].IsSystem
             /\ role.Code # roleTable[role.ID].Code
       THEN /\ Return(w, [NoRet EXCEPT !.op = "UpdateRole", !.code = role.ID,
                                       !.err = "ErrSystemRole"])
            /\ UNCHANGED roleTable
     ELSE IF \E i \in DOMAIN roleTable \ {role.ID} :
               roleTable[i].Code = role.Code
       THEN /\ Return(w, [NoRet EXCEPT !.op = "UpdateRole", !.code = role.ID,
                                       !.err = "duplicate key"])
            /\ UNCHANGED roleTable
       ELSE /\ roleTable' = [roleTable EXCEPT ![role.ID] = role]
            /\ Return(w, [NoRet EXCEPT !.op = "UpdateRole", !.code = role.ID])
  /\ UNCHANGED <<now, tokenVars, casVars, rotations, sequential, userTable,
                 wrongStreak, sessVars>>

\* DeleteRole: a system role is refused, any other row is removed
DeleteRole(w, id) ==
  /\ MayBegin(w)
  /\ IF id \notin DOMAIN roleTable
       THEN /\ Return(w, [NoRet EXCEPT !.op = "DeleteRole", !.code = id,
                                       !.err = "ErrRoleNotFound"])
            /\ UNCHANGED roleTable
     ELSE IF roleTable[id].IsSystem
       THEN /\ Return(w, [NoRet EXCEPT !.op = "DeleteRole", !.code = id,
                                       !.err = "ErrSystemRole"])
            /\ UNCHANGED roleTable
       ELSE /\ roleTable' = [i \in DOMAIN roleTable \ {id} |-> roleTable[i]]
            /\ Return(w, [NoRet EXCEPT !.op = "DeleteRole", !.code = id])
  /\ UNCHANGED <<now, tokenVars, casVars, rotations, sequential, userTable,
                 wrongStreak, sessVars>>

\* the role management calls, on roles a caller can pass in
SpecRoles ==
  Init /\ [][\E w \in Workers :
               \/ \E role \in [ID : {0}, Code : {RoleSuperAdmin, "editor"},
                               Name : {"n0"}, IsSystem : BOOLEAN] :
                    CreateRole(w, role)
               \/ \E role \in [ID : 1..MaxRoleRows,
                               Code : {RoleSuperAdmin, "editor"},
                               Name : {"n0", "n1"}, IsSystem : BOOLEAN] :
                    UpdateRole(w, role)
               \/ \E id \in 1..MaxRoleRows : DeleteRole(w, id)]_vars

\* ============================================== authService.Authenticate
\* User.IsLocked: LockedUntil 0 is the nil pointer
IsLocked(user) == user.LockedUntil # 0 /\ now < user.LockedUntil

\* a lock that has run out takes the count with it
IncrementFailedLogin_FreshAfterLock(user) ==
  IF user.LockedUntil # 0 /\ now >= user.LockedUntil
    THEN [user EXCEPT !.FailedLoginCount = 1, !.LockedUntil = 0]
    ELSE [user EXCEPT !.FailedLoginCount = @ + 1,
                      !.LockedUntil =
                        IF user.FailedLoginCount + 1 >= MaxFailedAttempts
                          THEN now + LockDuration ELSE @]

\* User.IncrementFailedLogin
IncrementFailedLogin(user) ==
  [user EXCEPT !.FailedLoginCount = @ + 1,
               !.LockedUntil = IF user.FailedLoginCount + 1 >= MaxFailedAttempts
                                 THEN now + LockDuration ELSE @]

\* Authenticate and validateAndAuthenticate: the lock, then the status, then
\* the password; a wrong password is counted and the row written back, a
\* right one clears the count and the lock
Authenticate(w, username, password) ==
  /\ MayBegin(w)
  /\ LET done(err, ok) ==
           Return(w, [NoRet EXCEPT !.op = "Authenticate", !.err = err,
                                   !.args = <<username, password>>,
                                   !.ok = ok])
         user  == userTable[username]
         wrong == user.PasswordHash # Bcrypt(password) IN
       IF username \notin DOMAIN userTable
         THEN /\ done("ErrInvalidCredentials", FALSE)
              /\ UNCHANGED <<userTable, wrongStreak>>
         ELSE
           /\ wrongStreak' =
                [wrongStreak EXCEPT ![username] =
                   IF ~wrong THEN 0
                   ELSE IF @ = 0 /\ (IsLocked(user) \/ user.Status # "active")
                     THEN 0
                   ELSE IF @ > MaxFailedAttempts THEN @
                   ELSE @ + 1]
           /\ IF IsLocked(user)
                THEN /\ done("ErrAccountLocked", FALSE)
                     /\ UNCHANGED userTable
              ELSE IF user.Status # "active"
                THEN /\ done("ErrAccountDisabled", FALSE)
                     /\ UNCHANGED userTable
              ELSE IF wrong
                THEN /\ userTable' = [userTable EXCEPT ![username] =
                                        IncrementFailedLogin(user)]
                     /\ done("ErrInvalidCredentials", FALSE)
              ELSE /\ userTable' =
                        [userTable EXCEPT ![username] =
                           IF user.FailedLoginCount > 0
                             THEN [user EXCEPT !.FailedLoginCount = 0,
                                               !.LockedUntil = 0]
                             ELSE user]
                   /\ done(Nil, TRUE)
  /\ UNCHANGED <<now, tokenVars, casVars, rotations, sequential, roleTable,
                 sessVars>>

\* User.ResetFailedLogin
ResetFailedLogin(user) == [user EXCEPT !.FailedLoginCount = 0, !.LockedUntil = 0]

\* ResetPassword: the row is read by id, given the new password's hash and
\* a cleared count and lock, and written back
ResetPassword(w, userID, newPassword) ==
  /\ MayBegin(w)
  /\ IF userID \notin DOMAIN userTable
       THEN /\ Return(w, [NoRet EXCEPT !.op = "ResetPassword",
                                       !.args = <<userID, newPassword>>,
                                       !.err = "ErrUserNotFound"])
            /\ UNCHANGED <<userTable, wrongStreak>>
       ELSE /\ userTable' =
                 [userTable EXCEPT ![userID] =
                    ResetFailedLogin([@ EXCEPT !.PasswordHash =
                                                 Bcrypt(newPassword)])]
            /\ wrongStreak' = [wrongStreak EXCEPT ![userID] = 0]
            /\ Return(w, [NoRet EXCEPT !.op = "ResetPassword",
                                       !.args = <<userID, newPassword>>])
  /\ UNCHANGED <<now, tokenVars, casVars, rotations, sequential, roleTable,
                 sessVars>>

\* UnlockAccount: user.LockedUntil = nil; user.FailedLoginCount = 0; Update
UnlockAccount(w, userID) ==
  /\ MayBegin(w)
  /\ IF userID \notin DOMAIN userTable
       THEN /\ Return(w, [NoRet EXCEPT !.op = "UnlockAccount",
                                       !.args = <<userID>>,
                                       !.err = "ErrUserNotFound"])
            /\ UNCHANGED <<userTable, wrongStreak>>
       ELSE /\ userTable' =
                 [userTable EXCEPT ![userID] =
                    [@ EXCEPT !.LockedUntil = 0, !.FailedLoginCount = 0]]
            /\ wrongStreak' = [wrongStreak EXCEPT ![userID] = 0]
            /\ Return(w, [NoRet EXCEPT !.op = "UnlockAccount",
                                       !.args = <<userID>>])
  /\ UNCHANGED <<now, tokenVars, casVars, rotations, sequential, roleTable,
                 sessVars>>

\* logins and the administrator's resets, served one after the other, while
\* time passes
SpecLoginSeq ==
  InitSeq /\ [][\/ Tick
                \/ \E w \in Workers, name \in {"alice", "bob", "carol"},
                      password \in {"pw", "bad"} :
                     \/ Authenticate(w, name, password)
                     \/ ResetPassword(w, name, password)
                     \/ UnlockAccount(w, name)]_vars

\* ============================================ the token endpoint and its
\* neighbours: /oauth/token, /oauth/revoke, /oauth/introspect
\* the secret is verified only when one was sent
handleClientCredentialsCheck_SecretOptional(req) ==
  IF req.ClientID = "" THEN "invalid_client"
  ELSE IF GetByClientID(req.ClientID).err # Nil THEN "invalid_client"
  ELSE IF req.ClientSecret # ""
            /\ ~VerifyClientSecret(GetByClientID(req.ClientID).app,
                                   req.ClientSecret)
    THEN "invalid_client"
  ELSE Nil

\* the checks of handleClientCredentials, in the handler's order
handleClientCredentialsCheck(req) ==
  IF req.ClientID = "" \/ req.ClientSecret = "" THEN "invalid_client"
  ELSE IF GetByClientID(req.ClientID).err # Nil THEN "invalid_client"
  ELSE IF ~VerifyClientSecret(GetByClientID(req.ClientID).app,
                              req.ClientSecret)
    THEN "invalid_client"
  ELSE Nil

\* claims without a user, an access token and no refresh token
handleClientCredentials(w, req) ==
  /\ MayBegin(w)
  /\ LET err    == handleClientCredentialsCheck(req)
         claims == [NoClaims EXCEPT !.ClientID = req.ClientID,
                                    !.Scopes = req.Scope]
         access == AccessToken(claims, FreshID(1)) IN
       IF err # Nil
         THEN /\ Respond(w, "handleClientCredentials", req, err, Garbage,
                         NoTokenString)
              /\ UNCHANGED issued
         ELSE /\ Cardinality(issued) < MaxTokens
              /\ issued' = issued \cup {access}
              /\ Respond(w, "handleClientCredentials", req, Nil, access,
                         NoTokenString)
  /\ UNCHANGED <<now, codes, codeObjs, revokedTokens, redeemed, casVars,
                 rotations, sequential, storeVars, sessVars>>

\* every grant type outside the handled three is handed to a handler
Token_PasswordAsClientCredentials(w, req) ==
  IF req.GrantType = "authorization_code"
    THEN handleAuthorizationCode_Begin(w, req)
  ELSE IF req.GrantType = "refresh_token"
    THEN handleRefreshToken_Validate(w, req)
  ELSE handleClientCredentials(w, req)

\* OAuthHandler.Token: the binding of the form (grant_type is required) and
\* the switch on grant_type
Token(w, req) ==
  LET reject(err) ==
        /\ MayBegin(w)
        /\ Respond(w, "Token", req, err, Garbage, NoTokenString)
        /\ UNCHANGED <<now, tokenVars, casVars, rotations, sequential,
                       storeVars, sessVars>> IN
    IF req.GrantType = "" THEN reject("invalid_request")
    ELSE IF req.GrantType = "authorization_code"
      THEN handleAuthorizationCode_Begin(w, req)
    ELSE IF req.GrantType = "refresh_token"
      THEN handleRefreshToken_Validate(w, req)
    ELSE IF req.GrantType = "password"
      THEN reject("unsupported_grant_type")
    ELSE IF req.GrantType = "client_credentials"
      THEN handleClientCredentials(w, req)
    ELSE reject("unsupported_grant_type")

\* the forms posted to /oauth/token: client credentials right, wrong and
\* missing; no grant type, password and an unknown one, with and without a
\* stored code and an issued token; an authorization_code and a
\* refresh_token request the handlers refuse at their first check
TokenRequests ==
  {[NoTokenRequest EXCEPT !.GrantType = "client_credentials", !.ClientID = c,
                          !.ClientSecret = sec, !.Scope = {"profile"}] :
     c \in {"", "c1", "c3", "c9"}, sec \in {"", "s1", "s3"}}
  \cup
  {[NoTokenRequest EXCEPT !.GrantType = g, !.Code = c, !.RefreshToken = t,
                          !.ClientID = "c1", !.ClientSecret = "s1",
                          !.RedirectURI = "r1"] :
     g \in {"", "password", "implicit"},
     c \in codes \cup {0}, t \in issued \cup {NoTokenString}}
  \cup
  {[NoTokenRequest EXCEPT !.GrantType = "authorization_code", !.Code = c] :
     c \in (CodeStrings \ codes) \cup {0}}
  \cup
  {[NoTokenRequest EXCEPT !.GrantType = "refresh_token", !.RefreshToken = t] :
     t \in {s \in issued : s.claims.Type # "refresh"} \cup {NoTokenString}}

\* OAuthHandler.Revoke: a missing token is a bad request, every other string
\* is handed to RevokeToken and answered with 200 and an empty object
Revoke_Endpoint(w, token) ==
  /\ MayBegin(w)
  /\ IF token = NoTokenString
       THEN /\ Return(w, [NoRet EXCEPT !.op = "Revoke", !.token = token,
                                       !.err = "CodeInvalidRequest",
                                       !.status = 400])
            /\ UNCHANGED revokedTokens
       ELSE /\ \/ token \in DOMAIN revokedTokens
               \/ Cardinality(DOMAIN revokedTokens) < MaxRevoked
            /\ revokedTokens' = Revoke(revokedTokens, token, now)
            /\ Return(w, [NoRet EXCEPT !.op = "Revoke", !.token = token,
                                       !.status = 200])
  /\ UNCHANGED <<now, codes, codeObjs, issued, redeemed, casVars, rotations,
                 sequential, storeVars, sessVars>>

\* OAuthHandler.Introspect: active:false for a missing token and for one
\* ValidateToken refuses, the claims of the token otherwise
Introspect(w, token) ==
  /\ MayBegin(w)
  /\ LET v == ValidateToken(token) IN
       IF token = NoTokenString \/ v.err # Nil
         THEN Return(w, [NoRet EXCEPT !.op = "Introspect", !.token = token,
                                      !.ok = FALSE, !.status = 200])
         ELSE Return(w, [NoRet EXCEPT !.op = "Introspect", !.token = token,
                                      !.ok = TRUE, !.claims = v.claims,
                                      !.status = 200])
  /\ UNCHANGED <<now, tokenVars, casVars, rotations, sequential, storeVars,
                 sessVars>>

\* the three endpoints; every request of this specification is answered in
\* one step
SpecEndpoints ==
  Init /\
  [][\/ Tick
     \/ \E w \in Workers :
          \/ \E code \in CodeInputs :
               /\ Cardinality(DOMAIN codeObjs) < MaxAuthorized
               /\ GenerateAuthorizationCode(w, code)
          \/ \E cl \in GrantClaims : GenerateAccessToken(w, cl)
          \/ \E req \in TokenRequests : Token(w, req)
          \/ \E t \in Presentable \cup {NoTokenString} : Revoke_Endpoint(w, t)
          \/ \E t \in Presentable \cup {NoTokenString} : Introspect(w, t)]_vars

\* ================================================ rbacService.CheckPermission
\* resource + ":" + action
BuildPermissionCode(resource, action) == resource \o ":" \o action

\* the super-admin role counts only when it is the first of the user's roles
CheckPermission_SuperAdminFirstOnly(roles, resource, action) ==
  /\ roles # <<>>
  /\ \/ Head(roles).Code = RoleSuperAdmin
     \/ \E i \in DOMAIN roles :
          \E code \in roles[i].Permissions :
            \/ code = BuildPermissionCode(resource, action)
            \/ code = BuildPermissionCode(resource, ActionAll)

\* the resource's wildcard code is not looked for
CheckPermission_ExactOnly(roles, resource, action) ==
  \E i \in DOMAIN roles :
    \/ roles[i].Code = RoleSuperAdmin
    \/ BuildPermissionCode(resource, action) \in roles[i].Permissions

\* the loop over the roles GetUserRoles returned, in their order: a
\* super-admin role, or a permission that is the target code or the
\* resource's wildcard code, ends it with true
RECURSIVE CheckPermission(_, _, _)
CheckPermission(roles, resource, action) ==
  IF roles = <<>> THEN FALSE
  ELSE IF Head(roles).Code = RoleSuperAdmin THEN TRUE
  ELSE IF \E code \in Head(roles).Permissions :
            \/ code = BuildPermissionCode(resource, action)
            \/ code = BuildPermissionCode(resource, ActionAll)
    THEN TRUE
  ELSE CheckPermission(Tail(roles), resource, action)

\* rbacService.GetUserPermissions: the one sentinel as soon as a role is the
\* super-admin, the keys of permSet otherwise (a Go map: no order, no
\* duplicates)
GetUserPermissions(roles) ==
  IF \E i \in DOMAIN roles : roles[i].Code = RoleSuperAdmin
    THEN {"*:*"}
    ELSE UNION {roles[i].Permissions : i \in DOMAIN roles}

\* roles with their preloaded permissions: the super-admin with none and
\* with one, three ordinary roles, and a role holding the permission that
\* CreatePermission stores for resource "*" and action "*"
RoleInputs ==
  {[Code |-> RoleSuperAdmin, Permissions |-> {}],
   [Code |-> RoleSuperAdmin, Permissions |-> {"org:read"}],
   [Code |-> "org_admin", Permissions |-> {"user:*", "org:read"}],
   [Code |-> "user", Permissions |-> {"user:read"}],
   [Code |-> "guest", Permissions |-> {}],
   [Code |-> "auditor", Permissions |-> {BuildPermissionCode("*", ActionAll)}]}

\* one call, on the roles the repository returned for the user
CheckPermission_Call(w, roles, resource, action) ==
  /\ MayBegin(w)
  /\ Return(w, [NoRet EXCEPT !.op = "CheckPermission",
                             !.args = <<roles, resource, action>>,
                             !.ok = CheckPermission(roles, resource, action)])
  /\ UNCHANGED <<now, tokenVars, casVars, rotations, sequential, storeVars,
                 sessVars>>

GetUserPermissions_Call(w, roles) ==
  /\ MayBegin(w)
  /\ Return(w, [NoRet EXCEPT !.op = "GetUserPermissions",
                             !.args = <<roles>>,
                             !.list = GetUserPermissions(roles)])
  /\ UNCHANGED <<now, tokenVars, casVars, rotations, sequential, storeVars,
                 sessVars>>

SpecRBAC ==
  Init /\
  [][\E w \in Workers, n \in 0..MaxRoles :
       \E roles \in [1..n -> RoleInputs] :
         \/ \E resource \in {"user", "org"}, action \in {"read", "delete"} :
              CheckPermission_Call(w, roles, resource, action)
         \/ GetUserPermissions_Call(w, roles)]_vars

\* ================================================== the bearer-token gates
\* OptionalJWTAuth: what the handler behind it finds under "user_id". No
\* Authorization header, or one that is not "Bearer <token>", is the token
\* left out; a token sets the user only if it validates and is an access
\* token
OptionalJWTAuth_AnyKind(t) ==
  IF t = NoTokenString THEN NoUserID
  ELSE IF ValidateToken(t).err = Nil THEN ValidateToken(t).claims.UserID
  ELSE NoUserID

OptionalJWTAuth(t) ==
  IF t = NoTokenString THEN NoUserID
  ELSE IF ValidateToken(t).err = Nil /\ ValidateToken(t).claims.Type = "access"
    THEN ValidateToken(t).claims.UserID
  ELSE NoUserID

\* the claims tokens are signed for: two users' and, with no user, a
\* client's own
BearerClaims ==
  {[NoClaims EXCEPT !.UserID = u, !.ClientID = "c1", !.Scopes = {"openid"}] :
     u \in {"u1", "u2", NoUser}}

\* the authorization requests of the 2.1 client for its registered URI: the
\* one in order, and those whose scope or challenge is not
RouteRequests ==
  {r \in AuthorizeRequests :
     r.ResponseType = "code" /\ r.ClientID = "c1" /\ r.RedirectURI = "r1"}

\* GET /oauth/authorize as the router serves it: OptionalJWTAuth, then
\* Authorize
SpecAuthorizeRoute ==
  Init /\
  [][\/ Tick
     \/ \E w \in Workers :
          \/ \E cl \in BearerClaims : GenerateAccessToken(w, cl)
          \/ \E cl \in BearerClaims : GenerateRefreshToken(w, cl)
          \/ \E cl \in BearerClaims : GenerateIDToken(w, cl)
          \/ \E t \in issued : RevokeToken(w, t)
          \/ \E req \in RouteRequests,
                t \in Presentable \cup {NoTokenString} :
               Authorize(w, req, OptionalJWTAuth(t))]_vars

\* the kind of the token is not looked at
JWTAuth_AnyKind(t) ==
  IF t = NoTokenString
    THEN [next |-> FALSE, status |-> 401, userID |-> NoUserID]
  ELSE IF ValidateToken(t).err # Nil
    THEN [next |-> FALSE, status |-> 401, userID |-> NoUserID]
  ELSE [next |-> TRUE, status |-> 200,
        userID |-> ValidateToken(t).claims.UserID]

\* JWTAuth: whether the request is passed to the next handler (c.Next) or
\* answered by the gate and aborted.  No Authorization header, or one that
\* is not "Bearer <token>", is the token left out
JWTAuth(t) ==
  IF t = NoTokenString
    THEN [next |-> FALSE, status |-> 401, userID |-> NoUserID]
  ELSE IF ValidateToken(t).err # Nil
    THEN [next |-> FALSE, status |-> 401, userID |-> NoUserID]
  ELSE IF ValidateToken(t).claims.Type # "access"
    THEN [next |-> FALSE, status |-> 401, userID |-> NoUserID]
  ELSE [next |-> TRUE, status |-> 200,
        userID |-> ValidateToken(t).claims.UserID]

\* ------------------------------------------------------- AuthHandler.Login
\* POST /api/v1/auth/login with a username: Authenticate, then an access and
\* a refresh token for the user it returned
Login(w, username, password) ==
  /\ MayBegin(w)
  /\ Cardinality(issued) < MaxTokens
  /\ LET user    == userTable[username]
         claims  == [NoClaims EXCEPT !.UserID = username,
                                     !.Scopes = {"openid", "profile", "email"}]
         access  == AccessToken(claims, FreshID(1))
         refresh == RefreshTokenOf(claims, FreshID(2))
         refuse(code, status) ==
           /\ Return(w, [NoRet EXCEPT !.op = "Login", !.err = code,
                                      !.args = <<username, password>>,
                                      !.status = status])
           /\ UNCHANGED issued IN
       IF username \notin DOMAIN userTable
         THEN /\ refuse("CodeInvalidCredentials", 401)
              /\ UNCHANGED <<userTable, wrongStreak>>
       ELSE IF IsLocked(user)
         THEN /\ refuse("CodeAccountLocked", 403)
              /\ UNCHANGED <<userTable, wrongStreak>>
       ELSE IF user.Status # "active"
         THEN /\ refuse("CodeForbidden", 403)
              /\ UNCHANGED <<userTable, wrongStreak>>
       ELSE IF user.PasswordHash # Bcrypt(password)
         THEN /\ userTable' = [userTable EXCEPT ![username] =
                                 IncrementFailedLogin(user)]
              /\ wrongStreak' = [wrongStreak EXCEPT ![username] =
                                   IF @ > MaxFailedAttempts THEN @ ELSE @ + 1]
              /\ refuse("CodeInvalidCredentials", 401)
       ELSE /\ userTable' = [userTable EXCEPT ![username] =
                               IF user.FailedLoginCount > 0
                                 THEN ResetFailedLogin(user) ELSE user]
            /\ wrongStreak' = [wrongStreak EXCEPT ![username] = 0]
            /\ issued' = issued \cup {access, refresh}
            /\ Return(w, [NoRet EXCEPT !.op = "Login",
                                       !.args = <<username, password>>,
                                       !.token = access, !.refresh = refresh,
                                       !.status = 200])
  /\ UNCHANGED <<now, codes, codeObjs, revokedTokens, redeemed, casVars,
                 rotations, sequential, roleTable, sessVars>>

\* ------------------------------------------------------ AuthHandler.Logout
\* every refresh token of the user is revoked with the access token
Logout_EndsGrant(w, t) ==
  /\ MayBegin(w)
  /\ IF JWTAuth(t).next
       THEN /\ revokedTokens' =
                 [s \in DOMAIN revokedTokens \cup {t}
                          \cup {r \in issued :
                                  r.claims.UserID = t.claims.UserID} |-> now]
            /\ Return(w, [NoRet EXCEPT !.op = "Logout", !.token = t,
                                       !.status = 200])
       ELSE /\ UNCHANGED revokedTokens
            /\ Return(w, [NoRet EXCEPT !.op = "Logout", !.token = t,
                                       !.err = "CodeInvalidToken",
                                       !.status = JWTAuth(t).status])
  /\ UNCHANGED <<now, codes, codeObjs, issued, redeemed, casVars, rotations,
                 sequential, storeVars, sessVars>>

\* POST /api/v1/auth/logout as the router serves it: JWTAuth, then Logout,
\* which revokes the token of the Authorization header and answers success
Logout(w, t) ==
  /\ MayBegin(w)
  /\ IF JWTAuth(t).next
       THEN /\ revokedTokens' = Revoke(revokedTokens, t, now)
            /\ Return(w, [NoRet EXCEPT !.op = "Logout", !.token = t,
                                       !.status = 200])
       ELSE /\ UNCHANGED revokedTokens
            /\ Return(w, [NoRet EXCEPT !.op = "Logout", !.token = t,
                                       !.err = "CodeInvalidToken",
                                       !.status = JWTAuth(t).status])
  /\ UNCHANGED <<now, codes, codeObjs, issued, redeemed, casVars, rotations,
                 sequential, storeVars, sessVars>>

\* login, logout and the two refresh handlers, served one after the other,
\* and an id token such as the token endpoint issues
SpecLogoutSeq ==
  InitSeq /\
  [][\/ Tick
     \/ \E w \in Workers :
          \/ \E name \in {"alice", "bob"}, password \in {"pw", "bad"} :
               Login(w, name, password)
          \/ \E cl \in GrantClaims : GenerateIDToken(w, cl)
          \/ \E t \in Presentable \cup {NoTokenString} : Logout(w, t)
          \/ \E req \in RefreshRequests : RefreshToken_Validate(w, req)
          \/ RefreshToken_Rotate(w)
          \/ \E req \in RefreshRequests : handleRefreshToken_Validate(w, req)
          \/ handleRefreshToken_Rotate(w)]_vars

\* ==================================================================== C1
\* a ValidateAuthorizationCode call on the code string c returns in this step
VACReturned(c) ==
  /\ ret'.op = VACName
  /\ ret'.code = c
  /\ ret'.n # ret.n

\* C1: when calls run one after the other, a ValidateAuthorizationCode on a
\* generated, unexpired code that was never redeemed returns the stored
\* record and flags it as used; every call on a code that was redeemed
\* before fails with ErrCodeUsed; no code is ever redeemed twice.
C1_FirstRedemptionOnly ==
  [][\A c \in CodeStrings :
       VACReturned(c) =>
         /\ redeemed[c] >= 1 => ret'.err = ErrCodeUsed
         /\ (/\ redeemed[c] = 0
             /\ c \in DOMAIN codeObjs
             /\ now <= codeObjs[c].ExpiresAt)
              => /\ ret'.err = Nil
                 /\ codeObjs'[c].Used
                 /\ redeemed'[c] = 1
         /\ redeemed'[c] <= 1]_vars

\* a code was redeemed and a later redemption was refused as used
C1_Witness ==
  /\ ret.op = VACName
  /\ ret.err = ErrCodeUsed
  /\ redeemed[ret.code] = 1

\* ==================================================================== C2
\* C2: however the lookups, used-flag checks and used-flag writes of
\* concurrent ValidateAuthorizationCode calls interleave, at most one call
\* per code returns the record.
C2_AtMostOneWins == \A c \in CodeStrings : redeemed[c] <= 1

\* ==================================================================== C3
\* a ValidateST call on ticket t for the given service returns in this step
VSTReturned(t, service) ==
  /\ ret'.op = VSTName
  /\ ret'.ticket = t
  /\ ret'.service = service
  /\ ret'.n # ret.n

\* the ticket was minted and its expiry instant has not been reached
STLive(t) == t \in DOMAIN stMinted /\ now < stMinted[t].ExpiresAt

\* C3: when calls run one after the other, a ValidateST of a minted,
\* unexpired ticket for the service it was minted for succeeds if the ticket
\* never validated before, returning the ticket with its used flag set and
\* leaving the flag set in the store; it fails with ErrSTUsed if the ticket
\* validated before; and no ticket ever validates twice.
C3_FirstValidationOnly ==
  [][\A t \in Tickets :
       /\ \A s \in Services :
            (VSTReturned(t, s) /\ STLive(t) /\ s = stMinted[t].Service) =>
              /\ validated[t] >= 1 => ret'.err = ErrSTUsed
              /\ validated[t] = 0 =>
                   /\ ret'.err = Nil
                   /\ ret'.st = [stMinted[t] EXCEPT !.Used = TRUE]
                   /\ t \in DOMAIN sts' /\ UnmarshalST(sts'[t].data).Used
                   /\ validated'[t] = 1
       /\ validated'[t] <= 1]_vars

\* a ticket validated once, and a later validation of it for the same
\* service, before its expiry, was refused as used
C3_Witness ==
  /\ ret.op = VSTName
  /\ ret.err = ErrSTUsed
  /\ ret.ticket \in DOMAIN stMinted
  /\ ret.service = stMinted[ret.ticket].Service
  /\ validated[ret.ticket] = 1
  /\ now < stMinted[ret.ticket].ExpiresAt

\* ==================================================================== C4
\* C4: however the store reads and writes of concurrent ValidateST calls
\* interleave, a ticket is returned as valid at most once.
C4_AtMostOneValid == \A t \in Tickets : validated[t] <= 1

\* ==================================================================== C5
\* C5 as stated: a ValidateST of a minted, unexpired ticket for a service other
\* than the one it was minted for returns the service-mismatch error, before
\* and after a successful validation alike.
C5_MismatchRegardlessOfOrder ==
  [][\A t \in Tickets, s \in Services :
       (VSTReturned(t, s) /\ STLive(t) /\ s # stMinted[t].Service) =>
         ret'.err = ErrServiceMismatch]_vars

\* C5: a ValidateST of a minted, unexpired ticket for a service other than
\* the one it was minted for never succeeds: it returns the service-mismatch
\* error while the ticket has not validated, and ErrSTUsed once it has.
C5_MismatchUntilUsed ==
  [][\A t \in Tickets, s \in Services :
       (VSTReturned(t, s) /\ STLive(t) /\ s # stMinted[t].Service) =>
         /\ validated[t] = 0 => ret'.err = ErrServiceMismatch
         /\ validated[t] >= 1 => ret'.err = ErrSTUsed
         /\ validated' = validated]_vars

\* a ticket validated for its own service, and was then presented for
\* another service before its expiry
C5_Witness ==
  /\ ret.op = VSTName
  /\ ret.ticket \in DOMAIN stMinted
  /\ ret.service # stMinted[ret.ticket].Service
  /\ ret.err = ErrSTUsed
  /\ validated[ret.ticket] = 1
  /\ now < stMinted[ret.ticket].ExpiresAt

\* ==================================================================== C6
\* a refresh exchange presenting the token r is answered in this step
ExchangeReturned(r) ==
  /\ ret'.op \in {HRTName, ARTName}
  /\ ret'.req.RefreshToken = r
  /\ ret'.n # ret.n

\* r was presented to an exchange that was answered with a new pair
Rotated(r) == \E p \in rotations : p[1] = r

\* C6: when requests are served one after the other, a token that a refresh
\* exchange (of either handler) accepted fails ValidateToken from then on,
\* and every later exchange presenting it is rejected and issues nothing;
\* the refresh token an exchange returns is new, is a refresh token that
\* ValidateToken accepts, and, while it stays valid, its first exchange is
\* answered with a new pair.
C6_RotationRetiresOldToken ==
  /\ [](\A p \in rotations : ValidateToken(p[1]).err # Nil)
  /\ [][\A r \in issued :
          ExchangeReturned(r) =>
            /\ Rotated(r) => /\ ret'.err # Nil
                             /\ rotations' = rotations
                             /\ issued' = issued
            /\ ret'.err = Nil =>
                 /\ ret'.refresh \in issued' \ issued
                 /\ <<r, ret'.refresh>> \in rotations'
                 /\ LET v == ValidateTokenIn(revokedTokens', ret'.refresh,
                                             now') IN
                      v.err = Nil /\ v.claims.Type = "refresh"
                 /\ ValidateTokenIn(revokedTokens', r, now').err # Nil
            /\ (/\ \E p \in rotations : p[2] = r
                /\ ~Rotated(r)
                /\ ValidateToken(r).err = Nil) => ret'.err = Nil]_vars

\* a token returned by one exchange was exchanged in its turn, and presented
\* once more, and that last exchange was rejected
C6_Witness ==
  /\ ret.op \in {HRTName, ARTName}
  /\ ret.err # Nil
  /\ \E p \in rotations : p[2] = ret.req.RefreshToken
  /\ Rotated(ret.req.RefreshToken)

\* ==================================================================== C7
\* C7: however the ValidateToken and RevokeToken steps of concurrent refresh
\* exchanges interleave, the exchanges presenting one token are answered
\* with at most one new pair.
C7_AtMostOnePair ==
  \A p, q \in rotations : p[1] = q[1] => p = q

\* =================================================================== C10
\* C10: an authorization_code exchange is answered with tokens, or adds to
\* the tokens issued, only if the request's client_id is the client the code
\* is bound to, its redirect_uri is the URI the code is bound to, and its
\* code_verifier matches the challenge of a code that carries one; a request
\* that leaves client_id or redirect_uri out gets no token.
C10_TokensOnlyForBoundRequest ==
  [][(/\ ret'.op = HACName
      /\ ret'.n # ret.n
      /\ ret'.err = Nil \/ issued' # issued) =>
       /\ ret'.req.Code \in DOMAIN codeObjs
       /\ LET req      == ret'.req
              authCode == codeObjs[req.Code] IN
            /\ req.ClientID = authCode.ClientID
            /\ req.RedirectURI = authCode.RedirectURI
            /\ authCode.CodeChallenge # "" =>
                 verifyPKCE(authCode.CodeChallenge,
                            authCode.CodeChallengeMethod, req.CodeVerifier)]_vars

\* =================================================================== C11
\* C11: verifyPKCE answers true exactly when the method is "plain" or empty
\* and the challenge is the verifier, or the method is "S256" and the
\* challenge is the base64url SHA-256 digest of the verifier; against the
\* S256 challenge of a verifier every other verifier fails, and every other
\* method fails.
C11_VerifyPKCE ==
  ret.op = "verifyPKCE" =>
    LET challenge == ret.args[1]
        method    == ret.args[2]
        verifier  == ret.args[3] IN
      /\ ret.ok <=> \/ method \in {"plain", ""} /\ challenge = verifier
                    \/ method = "S256" /\ challenge = S256(verifier)
      /\ \A v \in PKCEVerifiers :
           (method = "S256" /\ challenge = S256(v) /\ verifier # v) => ~ret.ok
      /\ method \notin {"plain", "", "S256"} => ~ret.ok

\* the S256 challenge of a verifier was checked against another verifier,
\* and failed
C11_Witness ==
  /\ ret.op = "verifyPKCE"
  /\ ret.args = <<S256("v1"), "S256", "v2">>
  /\ ~ret.ok

\* =================================================================== C12
\* C12: an authorization request of a logged-in user that is in order but
\* for its scopes is given a code exactly when every scope name it asks for
\* is in the application's allow-list; otherwise it is answered
\* invalid_scope and no code is stored.
C12_ScopesWithinAllowList ==
  [][\A w \in Workers, req \in ScopeRequests, u \in Users :
       Authorize(w, req, u) =>
         LET S == Applications[req.ClientID].AllowedScopes
             R == req.Scope \ {""} IN
           /\ R \subseteq S =>
                /\ ret'.err = Nil
                /\ ret'.code \in codes' \ codes
                /\ codeObjs'[ret'.code].Scopes = req.Scope
           /\ ~(R \subseteq S) =>
                /\ ret'.err = "invalid_scope"
                /\ codes' = codes /\ codeObjs' = codeObjs]_vars

\* a request asking for a scope outside the allow-list was answered
\* invalid_scope, and no code is stored
C12_Witness ==
  /\ ret.op = "Authorize"
  /\ ret.err = "invalid_scope"
  /\ codes = {}

\* =================================================================== C13
\* C13: Authorize stores a code only for a request whose redirect_uri is one
\* of the URIs registered for the request's client, and stores that URI with
\* the code; every stored code's redirect URI is in its client's allow-list.
C13_RedirectURIExactMatch ==
  /\ [](\A c \in DOMAIN codeObjs :
          /\ codeObjs[c].ClientID \in DOMAIN Applications
          /\ codeObjs[c].RedirectURI
               \in Applications[codeObjs[c].ClientID].RedirectURIs)
  /\ [][\A w \in Workers, req \in AuthorizeRequests \cup ScopeRequests,
           u \in Users \cup {NoUserID} :
          (Authorize(w, req, u) /\ codeObjs' # codeObjs) =>
            /\ req.ClientID \in DOMAIN Applications
            /\ req.RedirectURI \in Applications[req.ClientID].RedirectURIs
            /\ codeObjs'[ret'.code].RedirectURI = req.RedirectURI
            /\ codeObjs'[ret'.code].ClientID = req.ClientID]_vars

\* a code was stored for the legacy client and the second of its registered
\* URIs
C13_Witness ==
  /\ ret.op = "Authorize"
  /\ ret.err = Nil
  /\ ret.code \in DOMAIN codeObjs
  /\ codeObjs[ret.code].ClientID = "c2"
  /\ codeObjs[ret.code].RedirectURI = "r2"

\* =================================================================== C14
\* C14: an authorization request of a 2.1 client that carries no
\* code_challenge is refused and stores nothing; every code stored for a 2.1
\* client carries a challenge; and an exchange of such a code is answered
\* with tokens only if the request's code_verifier matches the challenge.
C14_PKCERequiredFor21 ==
  /\ [](\A c \in DOMAIN codeObjs :
          Applications[codeObjs[c].ClientID].OAuthVersion = "2.1"
            => codeObjs[c].CodeChallenge # "")
  /\ [][/\ \A w \in Workers, req \in AuthorizeRequests,
             u \in Users \cup {NoUserID} :
            (/\ Authorize(w, req, u)
             /\ req.ClientID \in DOMAIN Applications
             /\ Applications[req.ClientID].OAuthVersion = "2.1"
             /\ req.CodeChallenge = "") =>
              ret'.err # Nil /\ codeObjs' = codeObjs /\ codes' = codes
        /\ (/\ ret'.op = "handleAuthorizationCode"
            /\ ret'.n # ret.n
            /\ ret'.err = Nil \/ issued' # issued) =>
             LET authCode == codeObjs[ret'.req.Code]
                 verifier == ret'.req.CodeVerifier IN
               Applications[authCode.ClientID].OAuthVersion = "2.1" =>
                 /\ verifier # ""
                 /\ \/ /\ authCode.CodeChallengeMethod = "plain"
                       /\ authCode.CodeChallenge = verifier
                    \/ /\ authCode.CodeChallengeMethod = "S256"
                       /\ authCode.CodeChallenge = S256(verifier)]_vars

\* the code of a 2.1 client was presented without a code_verifier, and the
\* exchange was refused
C14_Witness ==
  /\ ret.op = "handleAuthorizationCode"
  /\ ret.err = "invalid_request"
  /\ ret.req.CodeVerifier = ""
  /\ ret.req.Code \in DOMAIN codeObjs
  /\ Applications[codeObjs[ret.req.Code].ClientID].OAuthVersion = "2.1"
  /\ issued = {}

\* =================================================================== C15
\* C15: nothing is handed out for an application that is not active: no
\* stored authorization code and no issued token names a client whose status
\* is not "active".
C15_NoFlowForInactiveApp ==
  /\ \A c \in DOMAIN codeObjs :
       codeObjs[c].ClientID \in DOMAIN Applications
         => Applications[codeObjs[c].ClientID].Status = "active"
  /\ \A t \in issued :
       t.claims.ClientID \in DOMAIN Applications
         => Applications[t.claims.ClientID].Status = "active"

\* =================================================================== C16
\* C16: an authorization_code exchange that succeeds returns an access token
\* and a refresh token, both newly issued and carrying the user, client and
\* scopes stored with the code, and returns an id_token exactly when those
\* scopes contain "openid"; an exchange that fails returns invalid_grant,
\* invalid_client or invalid_request, returns no token and issues none.
C16_ExchangeResponse ==
  [][(ret'.op = HACName /\ ret'.n # ret.n) =>
       IF ret'.err = Nil
         THEN /\ ret'.req.Code \in DOMAIN codeObjs
              /\ LET authCode == codeObjs[ret'.req.Code]
                     Bound(t, type) ==
                       /\ t \in issued' \ issued
                       /\ t.claims.Type = type
                       /\ t.claims.UserID = authCode.UserID
                       /\ t.claims.ClientID = authCode.ClientID
                       /\ t.claims.Scopes = authCode.Scopes
                       /\ ValidateTokenIn(revokedTokens', t, now').err = Nil
                 IN /\ Bound(ret'.token, "access")
                    /\ Bound(ret'.refresh, "refresh")
                    /\ ret'.idToken # NoTokenString <=> "openid" \in authCode.Scopes
                    /\ ret'.idToken # NoTokenString => Bound(ret'.idToken, "id")
                    /\ ret'.status = 200
         ELSE /\ ret'.err \in {"invalid_grant", "invalid_client", "invalid_request"}
              /\ ret'.token = Garbage
              /\ ret'.refresh = NoTokenString
              /\ ret'.idToken = NoTokenString
              /\ issued' = issued]_vars

\* an exchange for a code granted with the openid scope returned all three
\* tokens
C16_Witness ==
  /\ ret.op = HACName
  /\ ret.err = Nil
  /\ ret.idToken \in issued
  /\ ret.refresh \in issued
  /\ "openid" \in codeObjs[ret.req.Code].Scopes

\* =================================================================== C17
\* C17: the client_credentials grant answers with a token exactly when
\* client_id and client_secret are both present, the client exists and the
\* secret verifies against the stored hash; the response then carries a newly
\* issued access token with no user and the client's id, and no refresh
\* token; every other request is answered invalid_client with HTTP 401 and
\* issues nothing.
C17_ClientCredentials ==
  [][(ret'.op = "handleClientCredentials" /\ ret'.n # ret.n) =>
       LET req == ret'.req IN
         IF /\ req.ClientID # ""
            /\ req.ClientSecret # ""
            /\ req.ClientID \in DOMAIN Applications
            /\ Applications[req.ClientID].ClientSecretHash
                 = Bcrypt(req.ClientSecret)
           THEN /\ ret'.err = Nil
                /\ ret'.status = 200
                /\ ret'.token \notin issued
                /\ issued' = issued \cup {ret'.token}
                /\ ret'.token.claims.Type = "access"
                /\ ret'.token.claims.UserID = NoUser
                /\ ret'.token.claims.ClientID = req.ClientID
                /\ ret'.refresh = NoTokenString
                /\ ret'.idToken = NoTokenString
           ELSE /\ ret'.err = "invalid_client"
                /\ ret'.status = 401
                /\ ret'.token = Garbage
                /\ ret'.refresh = NoTokenString
                /\ issued' = issued]_vars

\* a client was given a token for its id and secret
C17_Witness ==
  /\ ret.op = "handleClientCredentials"
  /\ ret.err = Nil
  /\ ret.token \in issued
  /\ ret.token.claims.UserID = NoUser
  /\ ret.req.ClientSecret = "s1"

\* =================================================================== C18
\* C18: a token request whose grant_type is password, or any value other
\* than authorization_code, refresh_token and client_credentials, is
\* answered unsupported_grant_type with HTTP 400; it changes neither the
\* authorization codes nor the revocation set and issues no token.
C18_UnsupportedGrantType ==
  [][\A w \in Workers, req \in TokenRequests :
       (/\ req.GrantType \notin {"", "authorization_code", "refresh_token",
                                 "client_credentials"}
        /\ Token(w, req)) =>
         /\ ret'.err = "unsupported_grant_type"
         /\ ret'.status = 400
         /\ ret'.req = req
         /\ ret'.token = Garbage
         /\ ret'.refresh = NoTokenString
         /\ codes' = codes
         /\ codeObjs' = codeObjs
         /\ revokedTokens' = revokedTokens
         /\ issued' = issued]_vars

\* a password request naming a stored code and an issued token was refused,
\* with a token already revoked
C18_Witness ==
  /\ ret.op = "Token"
  /\ ret.err = "unsupported_grant_type"
  /\ ret.req.GrantType = "password"
  /\ ret.req.Code \in codes
  /\ ret.req.RefreshToken \in issued
  /\ DOMAIN revokedTokens # {}

\* =================================================================== C19
\* C19: the revoke endpoint answers 200 for every token presented, valid or
\* not, and the token is in the revocation set from then on; the introspect
\* endpoint answers active exactly for the tokens ValidateToken accepts, with
\* their claims; so a token that was presented to the revoke endpoint is
\* never again reported active.
C19_RevokeThenInactive ==
  [][/\ DOMAIN revokedTokens \subseteq DOMAIN revokedTokens'
     /\ \A w \in Workers, t \in Presentable :
          Revoke_Endpoint(w, t) =>
            /\ ret'.status = 200
            /\ ret'.err = Nil
            /\ t \in DOMAIN revokedTokens'
     /\ (ret'.op = "Introspect" /\ ret'.n # ret.n) =>
          /\ ret'.status = 200
          /\ ret'.ok <=> /\ ret'.token \notin DOMAIN revokedTokens
                         /\ ParseWithClaims(ret'.token, now) = Nil
                         /\ ret'.token.claims.Issuer = Issuer
          /\ ret'.ok => ret'.claims = ret'.token.claims
          /\ ret'.token \in DOMAIN revokedTokens => ~ret'.ok]_vars

\* an unexpired issued token was revoked and then reported inactive
C19_Witness ==
  /\ ret.op = "Introspect"
  /\ ~ret.ok
  /\ ret.token \in issued
  /\ ret.token \in DOMAIN revokedTokens
  /\ ParseWithClaims(ret.token, now) = Nil

\* =================================================================== C20
\* C20: whenever the roles of the user contain the super-admin role, at any
\* position and whatever permissions the roles carry, CheckPermission
\* answers true for the resource and action asked about.
C20_SuperAdminAlwaysPermitted ==
  ret.op = "CheckPermission" =>
    LET roles == ret.args[1] IN
      (\E i \in DOMAIN roles : roles[i].Code = RoleSuperAdmin) => ret.ok

\* the super-admin role came second, after a role without the permission,
\* and carried no permission itself
C20_Witness ==
  /\ ret.op = "CheckPermission"
  /\ ret.ok
  /\ Len(ret.args[1]) = 2
  /\ ret.args[1][1].Code = "guest"
  /\ ret.args[1][2] = [Code |-> RoleSuperAdmin, Permissions |-> {}]
  /\ ret.args[3] = "delete"

\* =================================================================== C21
\* C21: for roles without the super-admin, CheckPermission answers true
\* exactly when some role holds a permission whose code is resource:action
\* or resource:*; with no roles, or with permissions on another resource or
\* another action only, it answers false.
C21_PermissionByExactOrWildcardCode ==
  ret.op = "CheckPermission" =>
    LET roles    == ret.args[1]
        resource == ret.args[2]
        action   == ret.args[3] IN
      (\A i \in DOMAIN roles : roles[i].Code # RoleSuperAdmin) =>
        /\ ret.ok <=> \E i \in DOMAIN roles :
                        \E code \in roles[i].Permissions :
                          \/ code = resource \o ":" \o action
                          \/ code = resource \o ":*"
        /\ roles = <<>> => ~ret.ok

\* a role holding user:* let the user delete users
C21_Witness ==
  /\ ret.op = "CheckPermission"
  /\ ret.ok
  /\ ret.args = <<<<[Code |-> "user", Permissions |-> {"user:read"}],
                    [Code |-> "org_admin",
                     Permissions |-> {"user:*", "org:read"}]>>,
                  "user", "delete">>

\* =================================================================== C22
\* C22: for every list of roles, CheckPermission answers true for a resource
\* and an action exactly when the list of GetUserPermissions holds the
\* sentinel *:*, the code resource:action or the code resource:*; for roles
\* with the super-admin the list is the sentinel alone.
C22_PermissionListAgrees ==
  ret.op = "GetUserPermissions" =>
    LET roles == ret.args[1] IN
      /\ \A resource \in {"user", "org"}, action \in {"read", "delete"} :
           CheckPermission(roles, resource, action)
             <=> \/ "*:*" \in ret.list
                 \/ (resource \o ":" \o action) \in ret.list
                 \/ (resource \o ":*") \in ret.list
      /\ (\E i \in DOMAIN roles : roles[i].Code = RoleSuperAdmin)
           => ret.list = {"*:*"}

\* =================================================================== C23
\* C23: no CreateRole, UpdateRole or DeleteRole call changes or removes a row
\* whose system flag is set: the row stays in the table as it is, flag
\* included, and an UpdateRole or DeleteRole on it returns the system-role
\* error.
C23_SystemRolesUntouched ==
  [][/\ \A id \in DOMAIN roleTable :
          roleTable[id].IsSystem =>
            /\ id \in DOMAIN roleTable'
            /\ roleTable'[id] = roleTable[id]
     /\ (/\ ret'.op \in {"UpdateRole", "DeleteRole"}
         /\ ret'.n # ret.n
         /\ ret'.code \in DOMAIN roleTable
         /\ roleTable[ret'.code].IsSystem) => ret'.err = "ErrSystemRole"]_vars

\* =================================================================== C24
\* C24: on an active account, each of five wrong-password Authenticate calls
\* in a row returns invalid-credentials and the fifth leaves the account
\* locked; every call made while the lock is in force, the right password
\* included, fails with account-locked and authenticates nobody.
C24_FiveFailuresLock ==
  [][\A w \in Workers, password \in {"pw", "bad"} :
       Authenticate(w, "alice", password) =>
         /\ wrongStreak'["alice"] \in 1..MaxFailedAttempts
              => ret'.err = "ErrInvalidCredentials"
         /\ wrongStreak'["alice"] = MaxFailedAttempts
              => userTable'["alice"].LockedUntil > now
         /\ IsLocked(userTable["alice"])
              => ret'.err = "ErrAccountLocked" /\ ~ret'.ok]_vars

C26_ValidOnlyOncePersisted ==
  [][\A t \in Tickets :
       /\ (ret'.op = VSTName /\ ret'.n # ret.n /\ ret'.ticket = t
             /\ ret'.err = Nil)
            => t \in DOMAIN sts' /\ UnmarshalST(sts'[t].data).Used
       /\ validated'[t] <= 1]_vars

\* C27: Delete(sessionID) succeeds, leaves no session under that id, and
\* changes neither the owner's other sessions nor their place in the index;
\* an id once gone does not come back, so every later Get of it returns
\* session-not-found, and ListByUserID returns stored sessions only, so no
\* later list contains it.
C27_DeleteRemovesSession ==
  [][/\ \A w \in Workers, id \in 1..MaxSessions :
          Delete(w, id) =>
            /\ ret'.err = Nil
            /\ id \notin DOMAIN sessions'
            /\ \A j \in DOMAIN sessions \ {id} :
                 j \in DOMAIN sessions' /\ sessions'[j] = sessions[j]
            /\ \A u \in DOMAIN userSessions :
                 \A j \in userSessions[u].data \ {id} :
                   u \in DOMAIN userSessions' /\ j \in userSessions'[u].data
     /\ \A id \in DOMAIN created \ DOMAIN sessions : id \notin DOMAIN sessions'
     /\ ret'.n # ret.n /\ ret'.op = "Get" /\ ret'.code \notin DOMAIN sessions =>
          ret'.err = "ErrSessionNotFound"
     /\ ret'.n # ret.n /\ ret'.op = "ListByUserID" =>
          ret'.list \subseteq DOMAIN sessions]_vars

\* Get has just refused a session that was deleted before its expiry, while
\* another session of the same owner is stored and in the owner's index
C27_Witness ==
  /\ ret.op = "Get" /\ ret.err = "ErrSessionNotFound"
  /\ ret.code \in DOMAIN created /\ now < created[ret.code].ExpiresAt
  /\ \E j \in DOMAIN sessions \ {ret.code} :
       /\ created[j].UserID = created[ret.code].UserID
       /\ created[j].UserID \in DOMAIN userSessions
       /\ j \in userSessions[created[j].UserID].data

\* C28: DeleteByUserID(u) leaves no session that was created for u and is
\* not past its expiry (one past its expiry is refused by Get anyhow) and no
\* index of u, and changes no session and no index of another user; and
\* ListByUserID(u) returns exactly the sessions created for u that are still
\* stored and not past their expiry (so none after DeleteByUserID(u)).
C28_DeleteByUserIDRemovesAll ==
  [][/\ \A w \in Workers, u \in {"u1", "u2"} :
          DeleteByUserID(w, u) =>
            /\ \A id \in DOMAIN created :
                 created[id].UserID = u /\ ~(now > created[id].ExpiresAt) =>
                   id \notin DOMAIN sessions'
            /\ u \notin DOMAIN userSessions'
            /\ \A id \in DOMAIN sessions :
                 created[id].UserID # u =>
                   id \in DOMAIN sessions' /\ sessions'[id] = sessions[id]
            /\ \A v \in DOMAIN userSessions \ {u} :
                 v \in DOMAIN userSessions' /\ userSessions'[v] = userSessions[v]
     /\ ret'.n # ret.n /\ ret'.op = "ListByUserID" =>
          ret'.list = {id \in DOMAIN sessions :
                         /\ created[id].UserID = ret'.args[1]
                         /\ ~(now > created[id].ExpiresAt)}]_vars

\* C29: a used flag once set stays set, a code once out of the map stays out,
\* expiry instants do not move and the clock does not run backwards; a
\* ValidateAuthorizationCode that finds no record returns ErrInvalidToken,
\* one that reads a set used flag returns ErrCodeUsed, and one that reads the
\* clock past the expiry returns ErrCodeExpired and takes the code out of the
\* map. So a call begun after the flag was set, or after a lookup past the
\* expiry, cannot succeed, however the calls interleave.
C29_SpentCodeStaysSpent ==
  [][/\ now' >= now
     /\ \A c \in DOMAIN codeObjs :
          /\ codeObjs[c].Used => codeObjs'[c].Used
          /\ c \notin codes => c \notin codes'
          /\ codeObjs'[c].ExpiresAt = codeObjs[c].ExpiresAt
     /\ \A w \in Workers :
          /\ \A c \in CodeStrings :
               VAC_Lookup(w, c) /\ c \notin codes =>
                 VACReturned(c) /\ ret'.err = ErrInvalidToken
          /\ VAC_CheckUsed(w) /\ codeObjs[loc[w].code].Used =>
               VACReturned(loc[w].code) /\ ret'.err = ErrCodeUsed
          /\ VAC_CheckExpiry(w) /\ now > codeObjs[loc[w].code].ExpiresAt =>
               /\ VACReturned(loc[w].code) /\ ret'.err = ErrCodeExpired
               /\ loc[w].code \notin codes']_vars

\* one code was redeemed and is flagged; another was evicted on a lookup past
\* its expiry, and its next redemption has just failed as not found
C29_Witness ==
  /\ ret.op = VACName /\ ret.err = ErrInvalidToken
  /\ ret.code \in DOMAIN codeObjs \ codes
  /\ ~codeObjs[ret.code].Used
  /\ \E c \in codes : codeObjs[c].Used /\ redeemed[c] >= 1

\* C30: Delete and DeleteByUserID change no TGT and no service ticket: the
\* TGT records change only when CreateTGT or DeleteTGT returns, when
\* CreateST finds the TGT expired, or when the store evicts a TGT whose time
\* has run out, so a TGT of a deleted session is still there for CreateST.
C30_SessionDeleteLeavesTickets ==
  [][/\ ret'.n # ret.n /\ ret'.op \in {"Delete", "DeleteByUserID"} =>
          tgts' = tgts /\ sts' = sts
     /\ tgts' # tgts =>
          \/ /\ ret'.n # ret.n
             /\ \/ ret'.op \in {"CreateTGT", "DeleteTGT"}
                \/ ret'.op = "CreateST" /\ ret'.err = ErrTGTExpired
          \/ \E g \in TGTIds : Lapsed(tgts, g) /\ tgts' = RedisDel(tgts, g)]_vars

\* CreateST has just minted a ticket from a stored TGT whose session had
\* been deleted before the call
C30_Witness ==
  /\ ret.op = "CreateST" /\ ret.err = Nil
  /\ ret.tgt \in DOMAIN tgts
  /\ tgts[ret.tgt].data.session_id \in DOMAIN created \ DOMAIN sessions

\* C31: a ValidateST of a stored, unexpired, unused ticket for a service it
\* was not minted for fails with the service-mismatch error, and a
\* ValidateST that fails so changes no stored ticket and counts as no
\* validation; the next ValidateST of that ticket for the service it was
\* minted for, the ticket still stored and not past its expiry, passes every
\* check and goes on to mark the ticket used and return it.
C31_MismatchLeavesTicket ==
  [][/\ \A t \in Tickets, s \in Services :
          /\ (/\ \E w \in Workers : VST_Get(w, t, s)
              /\ t \in DOMAIN sts /\ ~(now > sts[t].data.expires_at)
              /\ ~sts[t].data.used /\ sts[t].data.service # s)
               => VSTReturned(t, s) /\ ret'.err = ErrServiceMismatch
          /\ VSTReturned(t, s) /\ ret'.err = ErrServiceMismatch =>
               /\ sts' = sts /\ validated' = validated
               /\ t \in DOMAIN sts /\ ~sts[t].data.used
               /\ sts[t].data.expires_at = stMinted[t].ExpiresAt
     /\ \A w \in Workers, t \in DOMAIN sts :
          (/\ ret.op = VSTName /\ ret.err = ErrServiceMismatch
           /\ ret.ticket = t
           /\ ~(now > sts[t].data.expires_at)
           /\ VST_Get(w, t, stMinted[t].Service))
            => /\ pc'[w] = "vst_set"
               /\ loc'[w].st = stMinted[t]
     /\ \A w \in Workers :
          VST_Set(w) =>
            /\ VSTReturned(loc[w].ticket, loc[w].service) /\ ret'.err = Nil
            /\ ret'.st.Used /\ sts'[loc[w].ticket].data.used]_vars

\* a validation of the ticket for the wrong service was refused, and the
\* validation for the right service that followed has passed its checks
C31_Witness ==
  \E w \in Workers :
    /\ pc[w] = "vst_set"
    /\ ret.op = VSTName /\ ret.err = ErrServiceMismatch
    /\ ret.ticket = loc[w].ticket
    /\ ret.service # loc[w].service

\* C32: a Get of a session that is past its expiry and still in its owner's
\* index (it was not deleted, and no call has found it expired yet) returns
\* the session-expired error; a Get that returns it leaves no record of the
\* session and the id out of the owner's index, so that the next Get
\* returns session-not-found.
C32_ExpiredSessionReported ==
  [][\A id \in DOMAIN created :
       (ret'.n # ret.n /\ ret'.op = "Get" /\ ret'.code = id) =>
         /\ (/\ now > created[id].ExpiresAt
             /\ created[id].UserID \in DOMAIN userSessions
             /\ id \in userSessions[created[id].UserID].data)
              => ret'.err = "ErrSessionExpired"
         /\ ret'.err = "ErrSessionExpired" =>
              /\ id \notin DOMAIN sessions'
              /\ \A u \in DOMAIN userSessions' : id \notin userSessions'[u].data]_vars

\* C33: an authorization request whose bearer token is left out, or is not
\* an unexpired, unrevoked access token the service issued, stores no
\* authorization code, and when the request is otherwise in order it is
\* answered with the redirect to the login page that carries the request's
\* own URL; a code is stored only for a request that carries such a token,
\* and with that token's user id.
C33_LoginBeforeCode ==
  [][\A w \in Workers, req \in RouteRequests,
        t \in Presentable \cup {NoTokenString} :
       Authorize(w, req, OptionalJWTAuth(t)) =>
         LET authenticated == /\ t \in issued
                              /\ t.claims.Type = "access"
                              /\ ~(now > t.claims.ExpiresAt)
                              /\ t \notin DOMAIN revokedTokens IN
           /\ ~authenticated =>
                /\ codes' = codes /\ codeObjs' = codeObjs
                /\ ret'.err # Nil
                /\ AuthorizeCheck(req, "u1") = Nil =>
                     /\ ret'.err = "login" /\ ret'.status = 302
                     /\ ret'.args = <<"/login", "redirect", req>>
           /\ codeObjs' # codeObjs =>
                /\ authenticated
                /\ codeObjs'[ret'.code].UserID = t.claims.UserID]_vars

\* a request in order was sent to the login page while the one token the
\* service had issued was a refresh token, or an access token since revoked
\* or expired
C33_Witness ==
  /\ ret.op = "Authorize" /\ ret.err = "login"
  /\ codes = {}
  /\ \E t \in issued :
       \/ t.claims.Type = "refresh"
       \/ t.claims.Type = "access" /\ t \in DOMAIN revokedTokens

\* C34: for an authorization request that names a registered client and one
\* of its redirect URIs, response_type code is never refused as unsupported,
\* token is refused as unsupported exactly when the client is in the 2.1
\* profile, and every other value is refused as unsupported; a request
\* refused as unsupported stores no code.
C34_ResponseTypes ==
  [][\A w \in Workers, req \in AuthorizeRequests, u \in Users \cup {NoUserID} :
       (/\ Authorize(w, req, u)
        /\ req.ResponseType # ""
        /\ req.ClientID \in DOMAIN Applications
        /\ req.RedirectURI \in Applications[req.ClientID].RedirectURIs) =>
         LET refused == \/ req.ResponseType \notin {"code", "token"}
                        \/ /\ req.ResponseType = "token"
                           /\ Applications[req.ClientID].OAuthVersion = "2.1"
         IN /\ refused <=> ret'.err = "unsupported_response_type"
            /\ refused => codes' = codes /\ codeObjs' = codeObjs]_vars

\* a request of the legacy client with response_type token passed every
\* check and was sent to the login page
C34_Witness ==
  /\ ret.op = "Authorize" /\ ret.err = "login"
  /\ ret.args[3].ResponseType = "token"
  /\ Applications[ret.args[3].ClientID].OAuthVersion # "2.1"

\* C36: a response of Authorize sends the browser to the request's
\* redirect_uri only if the request names a registered client and the
\* redirect_uri is in that client's allow-list.
C36_NoRedirectToUnlistedURI ==
  [][\A w \in Workers, req \in AuthorizeRequests, u \in Users \cup {NoUserID} :
       (/\ Authorize(w, req, u)
        /\ ret'.status = 302
        /\ ret'.args[1] = req.RedirectURI) =>
         /\ req.ClientID \in DOMAIN Applications
         /\ req.RedirectURI \in Applications[req.ClientID].RedirectURIs]_vars

\* ==================================================================== C35
\* C35: the authorization_code grant consumes the code before it checks the
\* client, the secret, the redirect URI or the PKCE verifier.  An exchange of
\* a stored code that ends with an error and leaves the code stored leaves it
\* with its used flag set, whichever check failed; and an exchange of a code
\* whose flag is set answers invalid_grant, however correct its parameters.
C35_CodeSpentBeforeChecks ==
  [][(ret'.n # ret.n /\ ret'.op = HACName /\ ret'.req.Code \in codes)
       => /\ (ret'.err # Nil /\ ret'.req.Code \in codes')
               => codeObjs'[ret'.req.Code].Used
          /\ codeObjs[ret'.req.Code].Used
               => /\ ret'.err = "invalid_grant"
                  /\ ret'.status = 400
                  /\ issued' = issued]_vars

\* a fully correct exchange of an unexpired code answered invalid_grant, the
\* code having been spent by exchanges that issued no token at all
C35_Witness ==
  /\ ret.op = HACName
  /\ ret.err = "invalid_grant"
  /\ ret.req.Code \in codes
  /\ codeObjs[ret.req.Code].Used
  /\ now <= codeObjs[ret.req.Code].ExpiresAt
  /\ HACCheck(codeObjs[ret.req.Code], ret.req) = Nil
  /\ ret.req.ClientID # ""
  /\ ret.req.RedirectURI # ""
  /\ issued = {}

\* ==================================================================== C37
\* the TGT is deleted, dropped by the store, or past its expiry
TGTGone(g) == g \notin DOMAIN tgts \/ now > tgts[g].data.expires_at

\* C37: ValidateST does not consult the owning TGT.  A ValidateST of a stored,
\* unexpired, unused ticket for the service it was minted for, made when the
\* TGT the ticket was minted under has been deleted or has expired, passes
\* every check; the validation then marks the ticket used and returns it
\* with no error, once, and reads and writes no TGT.
C37_TicketOutlivesTGT ==
  [][/\ \A w \in Workers, t \in DOMAIN sts :
          (/\ VST_Get(w, t, stMinted[t].Service)
           /\ ~(now > sts[t].data.expires_at)
           /\ ~sts[t].data.used
           /\ TGTGone(sts[t].data.tgt_id))
            => /\ pc'[w] = "vst_set"
               /\ loc'[w].st = stMinted[t]
               /\ tgts' = tgts
     /\ \A w \in Workers :
          VST_Set(w) =>
            /\ VSTReturned(loc[w].ticket, loc[w].service) /\ ret'.err = Nil
            /\ ret'.st = [stMinted[loc[w].ticket] EXCEPT !.Used = TRUE]
            /\ sts'[loc[w].ticket].data.used
            /\ validated'[loc[w].ticket] = 1
            /\ tgts' = tgts]_vars

\* the call that last returned was the DeleteTGT of the TGT a ticket was
\* minted under, and a validation of that ticket, unexpired, has since
\* passed its checks
C37_Witness ==
  \E w \in Workers :
    /\ pc[w] = "vst_set"
    /\ ret.op = "DeleteTGT"
    /\ ret.tgt = loc[w].st.TGTID
    /\ loc[w].st.TGTID \notin DOMAIN tgts
    /\ now < loc[w].st.ExpiresAt

\* ==================================================================== C38
\* C38: the failed-login count of an account goes down only in a step in
\* which an Authenticate succeeds, or a ResetPassword or UnlockAccount of the
\* account returns without error, and it then goes to zero with the lock time
\* cleared; the passing of time and an Authenticate made while the lock is in
\* force leave the row as it is.  On an active account that has been locked
\* and whose cool-down has elapsed, one wrong-password Authenticate returns
\* invalid-credentials and locks the account again, for LockDuration from
\* now, and a right-password Authenticate authenticates and leaves the count
\* at zero with no lock time.
C38_CounterOutlivesLock ==
  [][/\ \A u \in DOMAIN userTable :
          /\ userTable'[u].FailedLoginCount < userTable[u].FailedLoginCount
               => /\ ret'.n # ret.n
                  /\ ret'.err = Nil
                  /\ \/ ret'.op = "Authenticate" /\ ret'.ok /\ ret'.args[1] = u
                     \/ ret'.op \in {"ResetPassword", "UnlockAccount"}
                          /\ ret'.args[1] = u
                  /\ userTable'[u].FailedLoginCount = 0
                  /\ userTable'[u].LockedUntil = 0
          /\ now' # now => userTable'[u] = userTable[u]
     /\ \A w \in Workers, password \in {"pw", "bad"} :
          Authenticate(w, "alice", password) =>
            LET user == userTable["alice"] IN
              /\ IsLocked(user) => userTable' = userTable
              /\ (/\ user.Status = "active"
                  /\ user.FailedLoginCount >= MaxFailedAttempts
                  /\ user.LockedUntil # 0 /\ ~IsLocked(user))
                   => IF user.PasswordHash # Bcrypt(password)
                        THEN /\ ret'.err = "ErrInvalidCredentials"
                             /\ userTable'["alice"].FailedLoginCount =
                                  user.FailedLoginCount + 1
                             /\ userTable'["alice"].LockedUntil =
                                  now + LockDuration
                             /\ IsLocked(userTable'["alice"])
                        ELSE /\ ret'.err = Nil /\ ret'.ok
                             /\ userTable'["alice"].FailedLoginCount = 0
                             /\ userTable'["alice"].LockedUntil = 0]_vars

\* the account is locked again by the one wrong password that followed the
\* cool-down of its first lock
C38_Witness ==
  /\ ret.op = "Authenticate"
  /\ ret.args[1] = "alice"
  /\ ret.err = "ErrInvalidCredentials"
  /\ userTable["alice"].FailedLoginCount = MaxFailedAttempts + 1
  /\ userTable["alice"].LockedUntil = now + LockDuration

\* ==================================================================== C39
\* C39: Logout adds nothing to the revocation set but the access token it
\* was presented with and issues nothing, so every other issued token, the
\* refresh token of the same Login among them, validates after the Logout as
\* it did before it.  A RefreshToken exchange is never refused a refresh
\* token that validates, whatever has been revoked by a Logout, and an
\* exchange that is not refused answers 200 with a new access token for the
\* user of the token presented, which validates.
C39_LogoutKeepsRefreshToken ==
  [][/\ (ret'.n # ret.n /\ ret'.op = "Logout") =>
          /\ DOMAIN revokedTokens' \subseteq DOMAIN revokedTokens \cup {ret'.token}
          /\ ret'.err = Nil =>
               /\ ret'.token.claims.Type = "access"
               /\ ret'.token \in DOMAIN revokedTokens'
          /\ issued' = issued
          /\ \A r \in issued \ {ret'.token} :
               ValidateTokenIn(revokedTokens', r, now)
                 = ValidateTokenIn(revokedTokens, r, now)
     /\ (ret'.n # ret.n /\ ret'.op = ARTName) =>
          IF ret'.err # Nil
            THEN ~(/\ ret'.req.RefreshToken \in issued
                   /\ ret'.req.RefreshToken.claims.Type = "refresh"
                   /\ ValidateToken(ret'.req.RefreshToken).err = Nil)
            ELSE /\ ret'.status = 200
                 /\ ret'.token \notin issued
                 /\ ret'.token.claims.Type = "access"
                 /\ ret'.token.claims.UserID
                      = ret'.req.RefreshToken.claims.UserID
                 /\ ValidateTokenIn(revokedTokens', ret'.token, now).err = Nil]_vars

\* the call that last returned was the Logout that revoked the access token
\* of a Login, and a RefreshToken exchange presenting the refresh token of
\* that Login has since passed the handler's checks
C39_Witness ==
  \E w \in Workers :
    /\ pc[w] = "art_rotate"
    /\ ret.op = "Logout" /\ ret.err = Nil
    /\ ret.token \in DOMAIN revokedTokens
    /\ loc[w].req.RefreshToken.claims.ID = ret.token.claims.ID + 1
    /\ loc[w].req.RefreshToken.claims.UserID = ret.token.claims.UserID
    /\ ret.token.claims.ClientID = ""
    /\ rotations = {}

\* ==================================================================== C40
\* C40: token kinds are not interchangeable.  A request behind the JWTAuth
\* gate reaches its handler (here Logout, which revokes the bearer token and
\* answers 200) exactly when the bearer token validates and its kind is
\* access; otherwise the gate answers 401 and the handler does not run.  The
\* refresh_token grant answers a valid access or id token with 400
\* invalid_grant, revoking and issuing nothing, and goes on to rotate only
\* for a token that validates and whose kind is refresh.
C40_KindsNotInterchangeable ==
  [][/\ (ret'.n # ret.n /\ ret'.op = "Logout") =>
          IF /\ ret'.token # NoTokenString
             /\ ValidateToken(ret'.token).err = Nil
             /\ ValidateToken(ret'.token).claims.Type = "access"
            THEN /\ ret'.status = 200 /\ ret'.err = Nil
                 /\ ret'.token \in DOMAIN revokedTokens'
            ELSE /\ ret'.status = 401 /\ ret'.err = "CodeInvalidToken"
                 /\ revokedTokens' = revokedTokens
     /\ (/\ ret'.n # ret.n /\ ret'.op = HRTName
         /\ ret'.req.RefreshToken # NoTokenString
         /\ ValidateToken(ret'.req.RefreshToken).err = Nil
         /\ ValidateToken(ret'.req.RefreshToken).claims.Type # "refresh")
          => /\ ret'.err = "invalid_grant" /\ ret'.status = 400
             /\ revokedTokens' = revokedTokens
             /\ issued' = issued
     /\ \A w \in Workers :
          (pc[w] = "idle" /\ pc'[w] = "hrt_rotate")
            => /\ ValidateToken(loc'[w].req.RefreshToken).err = Nil
               /\ ValidateToken(loc'[w].req.RefreshToken).claims.Type
                    = "refresh"]_vars

\* a valid id token was turned away by the refresh_token grant, unrevoked
C40_Witness ==
  /\ ret.op = HRTName
  /\ ret.err = "invalid_grant"
  /\ ret.req.RefreshToken \in issued
  /\ ret.req.RefreshToken.claims.Type = "id"
  /\ ValidateToken(ret.req.RefreshToken).err = Nil

\* ==================================================================== C8
\* C8: RevokeToken returns success whatever string it is given; from then on
\* ValidateToken of that string fails; revoking a string that is already
\* revoked changes the outcome of no validation; and no step removes a
\* string from the revocation set.
C8_RevocationPermanent ==
  /\ [](/\ ret.op = "RevokeToken" => ret.err = Nil /\ ret.token \in DOMAIN revokedTokens
        /\ \A t \in DOMAIN revokedTokens : ValidateToken(t).err # Nil)
  /\ [][/\ DOMAIN revokedTokens \subseteq DOMAIN revokedTokens'
        /\ (now' = now /\ DOMAIN revokedTokens' = DOMAIN revokedTokens)
             => \A t \in Presentable :
                  ValidateTokenIn(revokedTokens', t, now') = ValidateToken(t)]_vars

\* a token that would otherwise validate was revoked and then refused
C8_Witness ==
  /\ ret.op = "ValidateToken"
  /\ ret.err = ErrInvalidToken
  /\ ret.token \in issued
  /\ ParseWithClaims(ret.token, now) = Nil
  /\ ret.token \in DOMAIN revokedTokens

\* ==================================================================== C9
Expired(t)     == now > t.claims.ExpiresAt
WrongIssuer(t) == t.claims.Issuer # Issuer

\* C9: ValidateToken answers ErrInvalidToken for a revoked or malformed
\* string, ErrInvalidSignature for a token whose signature does not verify,
\* ErrTokenExpired for a correctly signed token past its expiry,
\* ErrInvalidIssuer for a correctly signed token of another issuer, and the
\* decoded claims only when none of these apply.
C9_TypedFailurePerCause ==
  \A t \in Presentable :
    LET r == ValidateToken(t) IN
      IF t \in DOMAIN revokedTokens \/ ~t.wellformed THEN r.err = ErrInvalidToken
      ELSE IF t.sig # "valid" THEN r.err = ErrInvalidSignature
      ELSE IF Expired(t) /\ WrongIssuer(t)
        THEN r.err \in {ErrTokenExpired, ErrInvalidIssuer}
      ELSE IF Expired(t) THEN r.err = ErrTokenExpired
      ELSE IF WrongIssuer(t) THEN r.err = ErrInvalidIssuer
      ELSE r.err = Nil /\ r.claims = t.claims

=============================================================================
